---- MODULE Spec2Model ----
(***************************************************************************)
(* State-machine model of portfolio/optimizer.py (FreePortfolioOptimizer)  *)
(* and of the two front ends that call it (main_pipeline.py, dashboard.py). *)
(*                                                                         *)
(* Numbers.  The program computes in IEEE float64 (numpy / pandas).  The   *)
(* model keeps the three kinds of float64 value apart: a finite number, an *)
(* infinity and NaN.  A finite number is held in fixed point: Num(v) is    *)
(* the number v / Scale, and every operation rounds its exact result to    *)
(* the nearest representable value, as float64 does at its own (finer)     *)
(* resolution.  NaN and the infinities propagate by the IEEE rules, and    *)
(* every ordered comparison with NaN is false.                             *)
(***************************************************************************)
EXTENDS Integers, Sequences, FiniteSets, TLC

\* ---------------------------------------------------------------- bounds
\* fixed-point resolution: 1/16 and 1/100 are both whole numbers of units
Scale == 1600
MaxRows == 3
NumPortfolios == 2
MaxRuns == 2
\* the values of a seed's stream that are followed without a new call of
\* np.random.seed: two calls' samples
MaxStream == 8
MaxInput == 3

\* ------------------------------------------------------- float64 values
Num(v) == [k |-> "num", v |-> v]
NaN == [k |-> "nan", v |-> 0]
PosInf == [k |-> "inf", v |-> 1]
NegInf == [k |-> "inf", v |-> -1]
Zero == Num(0)
One == Num(Scale)

IsNaN(a) == a.k = "nan"
IsNum(a) == a.k = "num"
IsInf(a) == a.k = "inf"

Abs(x) == IF x < 0 THEN -x ELSE x
Sgn(x) == IF x > 0 THEN 1 ELSE IF x < 0 THEN -1 ELSE 0
SignedInf(s) == IF s > 0 THEN PosInf ELSE NegInf

\* a / b for integers, b # 0, rounded to the nearest integer (ties away from 0)
RoundDiv(a, b) ==
    LET d == Abs(b)
        q == Abs(a) \div d
        r == Abs(a) % d
    IN  Sgn(a) * Sgn(b) * (IF 2 * r >= d THEN q + 1 ELSE q)

\* Newton's iteration from a start r >= sqrt(x): it descends to the integer part
\* of sqrt(x)
RECURSIVE SqrtSearch(_, _)
SqrtSearch(x, r) ==
    LET next == (r + x \div r) \div 2
    IN  IF next >= r THEN r ELSE SqrtSearch(x, next)

\* the integer nearest to sqrt(x), x >= 0
ISqrt(x) ==
    LET r == IF x = 0 THEN 0
             ELSE IF x < 256 THEN SqrtSearch(x, 16)
             ELSE IF x < 65536 THEN SqrtSearch(x, 256)
             ELSE IF x < 16777216 THEN SqrtSearch(x, 4096)
             ELSE SqrtSearch(x, 46341)
    IN  IF x - r * r > r THEN r + 1 ELSE r

\* a * Scale / b for integers, b # 0, rounded to the nearest integer; the whole
\* part is divided first, so that the product with Scale stays small
ScaledDiv(a, b) ==
    LET d == Abs(b)
        q == Abs(a) \div d
        r == Abs(a) % d
    IN  Sgn(a) * Sgn(b) * (q * Scale + RoundDiv(r * Scale, d))

FNeg(a) == IF IsNaN(a) THEN NaN ELSE [k |-> a.k, v |-> -a.v]

FAdd(a, b) ==
    IF IsNum(a) /\ IsNum(b) THEN Num(a.v + b.v)
    ELSE IF IsNaN(a) \/ IsNaN(b) THEN NaN
    ELSE IF IsInf(a) /\ IsInf(b) THEN (IF a.v = b.v THEN a ELSE NaN)
    ELSE IF IsInf(a) THEN a
    ELSE b

FSub(a, b) == FAdd(a, FNeg(b))

FMul(a, b) ==
    IF IsNum(a) /\ IsNum(b) THEN Num(RoundDiv(a.v * b.v, Scale))
    ELSE IF IsNaN(a) \/ IsNaN(b) THEN NaN
    ELSE IF a.v = 0 \/ b.v = 0 THEN NaN
    ELSE SignedInf(Sgn(a.v) * Sgn(b.v))

\* a * k for an exact integer factor k (the annualisation factor, a count)
FMulInt(a, k) ==
    IF IsNum(a) THEN Num(a.v * k)
    ELSE IF IsNaN(a) THEN NaN
    ELSE IF k = 0 THEN NaN
    ELSE SignedInf(a.v * Sgn(k))

FDiv(a, b) ==
    IF IsNum(a) /\ IsNum(b) /\ b.v # 0 THEN Num(ScaledDiv(a.v, b.v))
    ELSE IF IsNaN(a) \/ IsNaN(b) THEN NaN
    ELSE IF IsInf(a) /\ IsInf(b) THEN NaN
    ELSE IF IsInf(a) THEN SignedInf(a.v * (IF b.v < 0 THEN -1 ELSE 1))
    ELSE IF IsInf(b) THEN Zero
    ELSE IF a.v = 0 THEN NaN
    ELSE SignedInf(a.v)

\* a / k for an integer count k >= 0
FDivInt(a, k) ==
    IF IsNaN(a) THEN NaN
    ELSE IF k = 0 THEN (IF IsInf(a) THEN a ELSE IF a.v = 0 THEN NaN ELSE SignedInf(a.v))
    ELSE IF IsInf(a) THEN a
    ELSE Num(RoundDiv(a.v, k))

\* np.sqrt: NaN for a negative argument (numpy warns, it does not raise)
FSqrt(a) ==
    IF IsNaN(a) THEN NaN
    ELSE IF IsInf(a) THEN (IF a.v > 0 THEN PosInf ELSE NaN)
    ELSE IF a.v < 0 THEN NaN
    ELSE Num(ISqrt(a.v * Scale))

\* ordered comparisons: false as soon as one side is NaN
FLt(a, b) ==
    IF IsNum(a) /\ IsNum(b) THEN a.v < b.v
    ELSE /\ ~IsNaN(a)
         /\ ~IsNaN(b)
         /\ IF IsInf(a) /\ IsInf(b) THEN a.v < b.v
            ELSE IF IsInf(a) THEN a.v < 0
            ELSE b.v > 0
FGt(a, b) == FLt(b, a)
FEq(a, b) == ~IsNaN(a) /\ ~IsNaN(b) /\ a = b
FLe(a, b) == FLt(a, b) \/ FEq(a, b)
FGe(a, b) == FLe(b, a)

FSum(s) ==
    LET RECURSIVE SumTo(_)
        SumTo(n) == IF n = 0 THEN Zero ELSE FAdd(SumTo(n - 1), s[n])
    IN  SumTo(Len(s))

\* np.dot of two vectors of one length: NaN propagates
Dot(a, b) == FSum([j \in 1..Len(a) |-> FMul(a[j], b[j])])

FAbs(a) == IF IsNaN(a) THEN NaN ELSE [k |-> a.k, v |-> Abs(a.v)]

RECURSIVE FProd(_)
FProd(s) == IF Len(s) = 0 THEN One ELSE FMul(FProd(SubSeq(s, 1, Len(s) - 1)), s[Len(s)])

\* A pandas reduction (Series.sum, prod, min, std, ...) leaves the NaN entries out:
\* skipna=True is the default, and np.sum / np.mean of a Series call the Series method.
SkipNa(s) == SelectSeq(s, LAMBDA x : ~IsNaN(x))
SumSkipNa(s) == FSum(SkipNa(s))
ProdSkipNa(s) == FProd(SkipNa(s))

\* ------------------------------------------------------- pandas helpers
\* A price table (the 'Adj Close' frame) is a sequence of rows, one per date,
\* each row a sequence of whole-unit prices, one per ticker.
Price(p) == Num(p * Scale)

\* DataFrame.pct_change: row t is data[t] / data[t-1] - 1, the first row is NaN
PctChange(d) ==
    [t \in 1..Len(d) |->
        [a \in 1..Len(d[t]) |->
            IF t = 1 THEN NaN
            ELSE FSub(FDiv(Price(d[t][a]), Price(d[t - 1][a])), One)]]

\* DataFrame.dropna: the rows holding a NaN go (an infinity is not a missing value)
DropNa(rows) == SelectSeq(rows, LAMBDA r : \A a \in 1..Len(r) : ~IsNaN(r[a]))

Column(rows, a) == [t \in 1..Len(rows) |-> rows[t][a]]

\* Series.mean: NaN for an empty column
Mean(col) == FDivInt(FSum(col), Len(col))

\* one entry of DataFrame.cov: sample covariance, divisor N - 1, NaN when N <= 1
Cov(x, y) ==
    IF Len(x) <= 1 THEN NaN
    ELSE LET mx == Mean(x)
             my == Mean(y)
         IN  FDivInt(FSum([t \in 1..Len(x) |-> FMul(FSub(x[t], mx), FSub(y[t], my))]),
                     Len(x) - 1)

MeanVector(rows, n) == [a \in 1..n |-> Mean(Column(rows, a))]
CovMatrix(rows, n) == [a \in 1..n |-> [b \in 1..n |-> Cov(Column(rows, a), Column(rows, b))]]

\* ------------------------------------------------- optimizer: constants
TradingDays == 252
\* FreePortfolioOptimizer.__init__: risk_free_rate = 0.04
RiskFreeRate == Num((4 * Scale) \div 100)

\* ------------------------------------------------ optimizer: arithmetic
\* np.sum(mean_returns * weights) * 252: the product is a Series, so np.sum is
\* Series.sum, which skips the NaN entries (0 when every entry is NaN)
PortfolioReturn(mean, w) ==
    FMulInt(SumSkipNa([j \in 1..Len(mean) |-> FMul(mean[j], w[j])]), TradingDays)

\* np.dot(cov, w): one entry per row of the matrix
MatVec(m, w) == [a \in 1..Len(m) |-> Dot(m[a], w)]

Annualised(cov) == [a \in 1..Len(cov) |-> [b \in 1..Len(cov) |-> FMulInt(cov[a][b], TradingDays)]]

\* the quadratic form w^T (cov * 252) w
QuadraticForm(cov, w) == Dot(w, MatVec(Annualised(cov), w))

\* np.sqrt(np.dot(weights.T, np.dot(cov_matrix * 252, weights)))
PortfolioVolatility(cov, w) == FSqrt(QuadraticForm(cov, w))

\* the guard of the Sharpe division: "if portfolio_vol > 0"
\* (SharpeGuardGe: the guard written ">= 0")
SharpeGuardGe(vol) == FGe(vol, Zero)
SharpeGuard(vol) == FGt(vol, Zero)

\* (ret - risk_free_rate) / vol if vol > 0 else 0
SharpeRatio(ret, vol) ==
    IF SharpeGuard(vol) THEN FDiv(FSub(ret, RiskFreeRate), vol) ELSE Zero

\* weights = np.random.random(n); weights /= np.sum(weights)
Normalize(draw) == LET total == FSum(draw) IN [j \in 1..Len(draw) |-> FDiv(draw[j], total)]

SetMin(S) == CHOOSE x \in S : \A y \in S : x <= y

\* np.argmin: the first index of the minimum; the first NaN when there is one
ArgMin(s) ==
    IF \E j \in 1..Len(s) : IsNaN(s[j])
    THEN SetMin({j \in 1..Len(s) : IsNaN(s[j])})
    ELSE SetMin({j \in 1..Len(s) : \A l \in 1..Len(s) : FLe(s[j], s[l])})

\* np.argmax: the first index of the maximum; the first NaN when there is one
\* (ArgMaxAsArgMin: np.argmin called in its place)
ArgMaxAsArgMin(s) == ArgMin(s)
ArgMax(s) ==
    IF \E j \in 1..Len(s) : IsNaN(s[j])
    THEN SetMin({j \in 1..Len(s) : IsNaN(s[j])})
    ELSE SetMin({j \in 1..Len(s) : \A l \in 1..Len(s) : FGe(s[j], s[l])})

\* results[2] as np.argmax compares it. A float64 ratio has more digits than a
\* multiple of 1/Scale, and two ratios that Num rounds to one value are
\* different numbers to the code: the order is taken on the quotients to two
\* more digits, in units of 1/Scale^2 (the whole part and the next digits are
\* divided one after the other, so that no product leaves the integers).
SharpeOrder(res) ==
    [j \in 1..Len(res[3]) |->
        LET excess == FSub(res[1][j], RiskFreeRate)
            vol == res[2][j]
            q == Abs(excess.v) \div Abs(vol.v)
            r == Abs(excess.v) % Abs(vol.v)
            q2 == (r * Scale) \div Abs(vol.v)
            r2 == (r * Scale) % Abs(vol.v)
        IN  IF ~IsNum(res[3][j]) THEN res[3][j]
            ELSE IF SharpeGuard(vol) /\ IsNum(vol) /\ IsNum(excess)
            THEN Num(Sgn(excess.v) * ((q * Scale + q2) * Scale + RoundDiv(r2 * Scale, vol.v)))
            ELSE Num(res[3][j].v * Scale)]

\* (DiversificationRatioElseZero: "else 0" written for "else 1";
\*  DiversificationRatioUnguarded: the division made without the "> 0" guard)
DiversificationRatioElseZero(cov, w) ==
    LET weighted_vol == FSqrt(Dot(w, MatVec(cov, w)))
        average_vol == FSqrt(FDivInt(FSum([a \in 1..Len(cov) |-> cov[a][a]]), Len(cov)))
    IN  IF FGt(weighted_vol, Zero) THEN FDiv(average_vol, weighted_vol) ELSE Zero
DiversificationRatioUnguarded(cov, w) ==
    LET weighted_vol == FSqrt(Dot(w, MatVec(cov, w)))
        average_vol == FSqrt(FDivInt(FSum([a \in 1..Len(cov) |-> cov[a][a]]), Len(cov)))
    IN  FDiv(average_vol, weighted_vol)

\* _calculate_diversification_ratio
DiversificationRatio(cov, w) ==
    LET weighted_vol == FSqrt(Dot(w, MatVec(cov, w)))
        average_vol == FSqrt(FDivInt(FSum([a \in 1..Len(cov) |-> cov[a][a]]), Len(cov)))
    IN  IF FGt(weighted_vol, Zero) THEN FDiv(average_vol, weighted_vol) ELSE One

\* one entry of stock_metrics (the weights are added by the caller)
StockMetric(mean, cov, a) ==
    LET annual_return == FMulInt(mean[a], TradingDays)
        annual_volatility == FSqrt(FMulInt(cov[a][a], TradingDays))
    IN  [annual_return |-> annual_return,
         annual_volatility |-> annual_volatility,
         sharpe_ratio |-> IF FGt(annual_volatility, Zero)
                          THEN FDiv(FSub(annual_return, RiskFreeRate), annual_volatility)
                          ELSE Zero]

\* ---------------------------------------------------------------- state
VARIABLES
    op,               \* the method called: "optimize" or "metrics"
    tickers,          \* the ticker symbols: the argument, or the portfolio dict's keys
    arg_weights,      \* initial_weights (None, or the caller's vector), or the dict's values
    fetch,            \* what yf.download does: "ok" (a frame comes back) or "raises"
    data,             \* the 'Adj Close' frame that comes back: rows of prices
    pc,               \* "start", "loop" (the sampling loop), "done"; "menu" and "exit" in
                      \* a front end, "idle" when the optimizer is not called
    initial_weights,  \* the local name after line 34
    mean_returns,     \* returns.mean()
    cov_matrix,       \* returns.cov()
    baseline,         \* portfolio_return, portfolio_volatility, portfolio_sharpe
    results,          \* the 3 x num_portfolios table: returns, volatilities, Sharpe ratios
    weights_record,   \* the weight vectors recorded so far
    i,                \* trials done
    caught,           \* the exception the except clause swallowed, "none" if none
    propagated,       \* the exception that reaches the caller, "none" if none
    returned,         \* "none" (still running), "empty" ({}), "result"
    result,           \* the dict returned when returned = "result"
    runs,             \* calls made with these arguments, this one included (in a
                      \* front end: 1 + the rounds that called the optimizer or
                      \* update_company)
    prev_returned,    \* what the call before this one returned
    prev_result,
    front,            \* who calls: "api" (a direct call), "cli" or "dashboard"
    tickers_input,    \* the text last entered at the ticker prompt, a sequence of characters
                      \* (for a stock report: the ticker made from it)
    reports,          \* portfolio report files written to reports/
    choice,           \* the last entry chosen at the menu, "none" before the first
    companies,        \* the committed rows of the table 'companies', in insertion order
    db_pc,            \* update_company: "idle", "query", "commit", "rollback", "close"
    db_ticker,        \* its argument
    db_info,          \* fetch_company_info(ticker), NoInfo for {}
    staged,           \* the table as the open session sees it, its own changes included
    db_error,         \* whether the last call's except clause ran
    db_calls,         \* calls of update_company that have returned
    report_pc,        \* the report's analyses: "start", "health", "technical", "done"
    health,           \* the dict analyze_company returns, or the health argument
    technical,        \* the dict of the technical analysis: its 'signals'
    valuation_summary,\* the valuation_summary argument
    recommendation,   \* the dict _generate_recommendation returns
    graham,           \* the report's 'graham_analysis': what graham_formula returned
    generator,        \* numpy's global generator: whether np.random.seed was called,
                      \* the values drawn since the seed as far as they are known,
                      \* and how many of them have been drawn since the last seeding
    seeded_runs       \* the calls (by number) that the caller made right after
                      \* np.random.seed(seed); no module of src/ makes such a call

vars == <<op, tickers, arg_weights, fetch, data, pc, initial_weights, mean_returns, cov_matrix,
          baseline, results, weights_record, i, caught, propagated, returned, result,
          runs, prev_returned, prev_result, front, tickers_input, reports, choice,
          companies, db_pc, db_ticker, db_info, staged, db_error, db_calls,
          report_pc, health, technical, valuation_summary, recommendation, graham,
          generator, seeded_runs>>

inputs == <<op, tickers, arg_weights, fetch, data>>
\* what one call leaves to the next
history == <<runs, prev_returned, prev_result, generator, seeded_runs>>
database == <<companies, db_pc, db_ticker, db_info, staged, db_error, db_calls>>
report == <<report_pc, health, technical, valuation_summary, recommendation, graham>>
session == <<front, tickers_input, reports, choice, database, report>>
\* what the optimizer and its front ends hold
portfolio == <<op, tickers, arg_weights, fetch, data, pc, initial_weights, mean_returns,
               cov_matrix, baseline, results, weights_record, i, caught, propagated,
               returned, result, runs, prev_returned, prev_result, generator,
               seeded_runs, front, tickers_input, reports, choice>>

\* ------------------------------------------------------------ input sets
TickerLists == {<<>>, <<"AAA">>, <<"AAA", "BBB">>}

\* the prices of one date, one per ticker
RowSet(n) ==
    IF n = 0 THEN {<<>>}
    ELSE IF n = 1 THEN {<<0>>, <<1>>, <<2>>}
    ELSE {<<1, 1>>, <<1, 2>>, <<2, 1>>, <<0, 1>>}

Tables(n) == UNION {[1..T -> RowSet(n)] : T \in 0..MaxRows}

None == [given |-> FALSE, w |-> <<>>]
Given(w) == [given |-> TRUE, w |-> w]

\* caller-supplied vectors: right and wrong lengths, summing to 1 and not
WeightArgs ==
    {None,
     Given(<<One>>),
     Given(<<Num(Scale \div 2), Num(Scale - Scale \div 2)>>),
     Given(<<Num(Scale \div 2), Num(Scale \div 4)>>),
     Given(<<Num(Scale \div 2), Num(Scale - Scale \div 2), Zero>>),
     Given(<<>>)}

\* np.random.random draws from [0, 1): 0 is a possible value, 1 is not
DrawSet == {Zero, Num(Scale \div 4), Num((3 * Scale) \div 4)}
Draws(n) == [1..n -> DrawSet]

\* the generator of a process that has not called np.random.seed: numpy seeds it
\* from the operating system, so nothing is known of its values
Unseeded == [seeded |-> FALSE, stream |-> <<>>, position |-> 0]
\* np.random.random(n): the next n values of the generator. After
\* np.random.seed(seed) the values are a function of the seed and the position:
\* a value drawn before at a position comes again at that position.
\* (AnyDraws: every call draws afresh, whatever the seed)
AnyDraws(g, n) == Draws(n)
NextDraws(g, n) ==
    {draw \in Draws(n) :
        g.seeded => \A k \in 1..n : g.position + k <= Len(g.stream)
                                        => draw[k] = g.stream[g.position + k]}

NoPoint == [expected_return |-> Zero, volatility |-> Zero, sharpe_ratio |-> Zero]
NoResult == [tickers |-> <<>>]

\* a call made directly on the optimizer, not through a front end
NoInfo == [name |-> ""]
\* no call of update_company made or under way, the table empty
DatabaseIdle ==
    /\ companies = <<>>
    /\ db_pc = "idle"
    /\ db_ticker = <<>>
    /\ db_info = NoInfo
    /\ staged = <<>>
    /\ db_error = FALSE
    /\ db_calls = 0

\* {}: the dict without keys
EmptyDict == [key \in {} |-> 0]
\* no report under way
ReportIdle ==
    /\ report_pc = "start"
    /\ health = EmptyDict
    /\ technical = EmptyDict
    /\ valuation_summary = EmptyDict
    /\ recommendation = EmptyDict
    /\ graham = EmptyDict

DirectCall ==
    /\ front = "api"
    /\ tickers_input = <<>>
    /\ reports = 0
    /\ choice = "none"
    /\ DatabaseIdle
    /\ ReportIdle

\* the locals of a call before its first line has run
Entry ==
    /\ pc = "start"
    /\ initial_weights = arg_weights
    /\ mean_returns = <<>>
    /\ cov_matrix = <<>>
    /\ baseline = NoPoint
    /\ results = <<>>
    /\ weights_record = <<>>
    /\ i = 0
    /\ caught = "none"
    /\ propagated = "none"
    /\ returned = "none"
    /\ result = NoResult

Init ==
    /\ op \in {"optimize", "metrics"}
    /\ tickers \in TickerLists
    /\ arg_weights \in WeightArgs
    \* a portfolio dict has one weight per ticker
    /\ op = "metrics" => arg_weights.given /\ Len(arg_weights.w) = Len(tickers)
    /\ \/ fetch = "raises" /\ data = <<>>
       \/ fetch = "ok" /\ data \in Tables(Len(tickers))
    /\ Entry
    /\ runs = 1
    /\ prev_returned = "none"
    /\ prev_result = NoResult
    /\ generator = Unseeded
    /\ seeded_runs = {}
    /\ DirectCall

\* ------------------------------------------------------------- actions
\* "except Exception as e: print(...); return {}"
ReturnEmpty(exc) ==
    /\ pc' = "done"
    /\ caught' = exc
    /\ returned' = "empty"
    /\ UNCHANGED <<inputs, initial_weights, mean_returns, cov_matrix, baseline, results,
                   weights_record, i, propagated, result, history, session>>

\* data.empty: no rows or no columns
Empty(d) == Len(d) = 0 \/ Len(d[1]) = 0

\* mean_returns * initial_weights and np.dot(cov, initial_weights) need one length
DimensionsAgree(n, w) == Len(w) = n

\* lines 15-43: download, returns, moments, the baseline portfolio, the empty table
Prepare ==
    /\ op = "optimize"
    /\ pc = "start"
    /\ IF fetch = "raises" THEN ReturnEmpty("DownloadError")
       ELSE IF Empty(data) THEN ReturnEmpty("none")
       ELSE LET n == Len(tickers)
                columns == Len(data[1])
                returns == DropNa(PctChange(data))
                mean == MeanVector(returns, columns)
                cov == CovMatrix(returns, columns)
                w == IF arg_weights.given THEN arg_weights.w
                     ELSE [a \in 1..n |-> FDiv(One, Num(n * Scale))]
                portfolio_return == PortfolioReturn(mean, w)
                portfolio_volatility == PortfolioVolatility(cov, w)
            IN  IF ~DimensionsAgree(columns, w) THEN ReturnEmpty("ValueError")
                ELSE /\ pc' = "loop"
                     /\ initial_weights' = Given(w)
                     /\ mean_returns' = mean
                     /\ cov_matrix' = cov
                     /\ baseline' = [expected_return |-> portfolio_return,
                                     volatility |-> portfolio_volatility,
                                     sharpe_ratio |-> SharpeRatio(portfolio_return,
                                                                  portfolio_volatility)]
                     /\ results' = [r \in 1..3 |-> [c \in 1..NumPortfolios |-> Zero]]
                     /\ weights_record' = <<>>
                     /\ i' = 0
                     /\ UNCHANGED <<inputs, caught, propagated, returned, result, history, session>>

\* weights_record.append(weights): the array made in this trial goes to the end
\* of the list; the arrays recorded before are other objects and stay as they are
\* (RecordShared: one array refilled by every trial, so every entry of the list
\* is the latest draw)
RecordShared(record, weights) == [j \in 1..Len(record) + 1 |-> weights]
Record(record, weights) == Append(record, weights)

\* lines 45-55: one trial of the sampling loop
Trial ==
    /\ pc = "loop"
    /\ i < NumPortfolios
    /\ \E draw \in NextDraws(generator, Len(tickers)) :
          LET weights == Normalize(draw)
              portfolio_ret == PortfolioReturn(mean_returns, weights)
              portfolio_vol == PortfolioVolatility(cov_matrix, weights)
          IN  /\ weights_record' = Record(weights_record, weights)
              /\ results' = [results EXCEPT ![1][i + 1] = portfolio_ret,
                                            ![2][i + 1] = portfolio_vol,
                                            ![3][i + 1] = SharpeRatio(portfolio_ret, portfolio_vol)]
              /\ generator' =
                    IF ~generator.seeded THEN generator
                    ELSE [seeded |-> TRUE,
                          stream |-> IF generator.position + Len(draw) <= Len(generator.stream)
                                     THEN generator.stream
                                     ELSE SubSeq(generator.stream, 1, generator.position)
                                          \o draw,
                          position |-> generator.position + Len(draw)]
    /\ i' = i + 1
    /\ UNCHANGED <<inputs, pc, initial_weights, mean_returns, cov_matrix, baseline,
                   caught, propagated, returned, result, runs, prev_returned, prev_result,
                   seeded_runs, session>>

\* lines 58-67 and 92-105: the point of trial idx, all four fields read at idx
\* (PointAtShifted: the weights read one trial off)
PointAtShifted(res, record, idx) ==
    [weights |-> record[(idx % Len(record)) + 1],
     expected_return |-> res[1][idx],
     volatility |-> res[2][idx],
     sharpe_ratio |-> res[3][idx]]
PointAt(res, record, idx) ==
    [weights |-> record[idx],
     expected_return |-> res[1][idx],
     volatility |-> res[2][idx],
     sharpe_ratio |-> res[3][idx]]

\* lines 57-113: the two distinguished points, the per-stock metrics, the result
Select ==
    /\ pc = "loop"
    /\ i = NumPortfolios
    /\ LET max_sharpe_idx == ArgMax(SharpeOrder(results))
           min_vol_idx == ArgMin(results[2])
           max_sharpe_weights == weights_record[max_sharpe_idx]
           min_vol_weights == weights_record[min_vol_idx]
           names == {tickers[a] : a \in 1..Len(tickers)}
           \* a later entry of the loop overwrites an earlier one with the same key
           last(t) == CHOOSE a \in 1..Len(tickers) :
                          /\ tickers[a] = t
                          /\ \A b \in 1..Len(tickers) : tickers[b] = t => b <= a
       IN  result' =
              [tickers |-> tickers,
               current_portfolio |->
                  [weights |-> initial_weights.w,
                   expected_return |-> baseline.expected_return,
                   volatility |-> baseline.volatility,
                   sharpe_ratio |-> baseline.sharpe_ratio],
               max_sharpe |-> PointAt(results, weights_record, max_sharpe_idx),
               min_volatility |-> PointAt(results, weights_record, min_vol_idx),
               stock_metrics |->
                  [t \in names |->
                      [weight_max_sharpe |-> max_sharpe_weights[last(t)],
                       weight_min_vol |-> min_vol_weights[last(t)],
                       metric |-> StockMetric(mean_returns, cov_matrix, last(t))]],
               diversification_ratio |-> DiversificationRatio(cov_matrix, max_sharpe_weights),
               efficient_frontier |->
                  [returns |-> results[1],
                   volatilities |-> results[2],
                   sharpe_ratios |-> results[3]]]
    /\ pc' = "done"
    /\ returned' = "result"
    /\ UNCHANGED <<inputs, initial_weights, mean_returns, cov_matrix, baseline, results,
                   weights_record, i, caught, propagated, history, session>>

\* --------------------------------------- calculate_portfolio_metrics
\* Series.std: the sample standard deviation (ddof = 1) of the non-NaN entries,
\* NaN when fewer than 2 are left
Std(s) ==
    LET xs == SkipNa(s)
        m == Mean(xs)
    IN  IF Len(xs) <= 1 THEN NaN
        ELSE FSqrt(FDivInt(FSum([t \in 1..Len(xs) |-> FMul(FSub(xs[t], m), FSub(xs[t], m))]),
                           Len(xs) - 1))

Range(s) == {s[t] : t \in 1..Len(s)}
FMaxSeq(xs) == CHOOSE x \in Range(xs) : \A y \in Range(xs) : FGe(x, y)

\* Series.min: the minimum of the non-NaN entries, NaN when none is left
MinSkipNa(s) ==
    LET xs == SkipNa(s)
    IN  IF Len(xs) = 0 THEN NaN
        ELSE CHOOSE x \in Range(xs) : \A y \in Range(xs) : FLe(x, y)

\* Series.cumprod: a NaN entry stays NaN and is left out of the running product
CumProd(s) ==
    [t \in 1..Len(s) |-> IF IsNaN(s[t]) THEN NaN ELSE ProdSkipNa(SubSeq(s, 1, t))]

\* (OverallMax: cumulative.max(), the maximum of the whole series, at every period)
OverallMax(s) ==
    [t \in 1..Len(s) |->
        LET xs == SkipNa(s)
        IN  IF Len(xs) = 0 THEN NaN ELSE FMaxSeq(xs)]

\* Series.expanding(min_periods=1).max(): the window code turns inf and -inf
\* into NaN before it takes the maximum, so this is the running maximum of the
\* finite entries, and NaN while there is none
ExpandingMax(s) ==
    [t \in 1..Len(s) |->
        LET xs == SelectSeq(SubSeq(s, 1, t), LAMBDA x : IsNum(x))
        IN  IF Len(xs) = 0 THEN NaN ELSE FMaxSeq(xs)]

Positive(s) == SelectSeq(s, LAMBDA x : FGt(x, Zero))
Negative(s) == SelectSeq(s, LAMBDA x : FLt(x, Zero))
Squares(s) == [t \in 1..Len(s) |-> FMul(s[t], s[t])]
SqrtTradingDays == FSqrt(Num(TradingDays * Scale))

\* lines 156-160: the maximum drawdown of a series of period returns
MaxDrawdown(portfolio_returns) ==
    LET cumulative == CumProd([t \in 1..Len(portfolio_returns) |->
                                   FAdd(One, portfolio_returns[t])])
        peak == ExpandingMax(cumulative)
        drawdown == [t \in 1..Len(cumulative) |->
                        FDiv(FSub(cumulative[t], peak[t]), peak[t])]
    IN  MinSkipNa(drawdown)

\* line 165: (annual_return - risk_free_rate) / downside_deviation if
\* downside_deviation > 0 else 0   (SortinoRatioUnguarded: without the guard)
SortinoRatioUnguarded(annual_return, downside_deviation) ==
    FDiv(FSub(annual_return, RiskFreeRate), downside_deviation)
SortinoRatio(annual_return, downside_deviation) ==
    IF FGt(downside_deviation, Zero)
    THEN FDiv(FSub(annual_return, RiskFreeRate), downside_deviation)
    ELSE Zero

\* line 168: annual_return / abs(max_drawdown) if max_drawdown != 0 else 0
\* (CalmarRatioSigned: without abs)
CalmarRatioSigned(annual_return, max_drawdown) ==
    IF ~FEq(max_drawdown, Zero) THEN FDiv(annual_return, max_drawdown) ELSE Zero
CalmarRatio(annual_return, max_drawdown) ==
    IF ~FEq(max_drawdown, Zero) THEN FDiv(annual_return, FAbs(max_drawdown)) ELSE Zero

\* lines 181-182: abs(sum of the wins / sum of the losses) if there is a loss
\* and the sum of the losses is not 0, else 0
\* (ProfitFactorUnguarded: without the condition)
ProfitFactorUnguarded(portfolio_returns) ==
    FAbs(FDiv(FSum(Positive(portfolio_returns)), FSum(Negative(portfolio_returns))))
ProfitFactor(portfolio_returns) ==
    IF /\ Len(Negative(portfolio_returns)) > 0
       /\ ~FEq(FSum(Negative(portfolio_returns)), Zero)
    THEN FAbs(FDiv(FSum(Positive(portfolio_returns)), FSum(Negative(portfolio_returns))))
    ELSE Zero

\* lines 150-183: the metrics of a series of portfolio returns
PortfolioMetrics(portfolio_returns) ==
    LET n_periods == Len(portfolio_returns)
        total_return ==
            FSub(ProdSkipNa([t \in 1..n_periods |-> FAdd(One, portfolio_returns[t])]), One)
        annual_return == FDivInt(FMulInt(total_return, TradingDays), n_periods)
        annual_volatility == FMul(Std(portfolio_returns), SqrtTradingDays)
        max_drawdown == MaxDrawdown(portfolio_returns)
        wins == Positive(portfolio_returns)
        downside_returns == Negative(portfolio_returns)
        downside_deviation ==
            IF Len(downside_returns) > 0
            THEN FMul(FSqrt(Mean(Squares(downside_returns))), SqrtTradingDays)
            ELSE Zero
    IN  [total_return |-> total_return,
         annual_return |-> annual_return,
         annual_volatility |-> annual_volatility,
         sharpe_ratio |-> IF FGt(annual_volatility, Zero)
                          THEN FDiv(FSub(annual_return, RiskFreeRate), annual_volatility)
                          ELSE Zero,
         sortino_ratio |-> SortinoRatio(annual_return, downside_deviation),
         calmar_ratio |-> CalmarRatio(annual_return, max_drawdown),
         max_drawdown |-> max_drawdown,
         win_rate |-> IF n_periods > 0
                      THEN FDiv(Num(Len(wins) * Scale), Num(n_periods * Scale))
                      ELSE Zero,
         avg_win |-> IF Len(wins) > 0 THEN Mean(wins) ELSE Zero,
         avg_loss |-> IF Len(downside_returns) > 0 THEN Mean(downside_returns) ELSE Zero,
         profit_factor |-> ProfitFactor(portfolio_returns)]

\* returns.dot(weights): one portfolio return per row
PortfolioReturns(returns, weights) == [t \in 1..Len(returns) |-> Dot(returns[t], weights)]

\* lines 128-187: calculate_portfolio_metrics, the whole call
Metrics ==
    /\ op = "metrics"
    /\ pc = "start"
    /\ IF Len(tickers) = 0 THEN ReturnEmpty("none")
       ELSE IF fetch = "raises" THEN ReturnEmpty("DownloadError")
       ELSE IF Empty(data) THEN ReturnEmpty("none")
       ELSE /\ result' = PortfolioMetrics(PortfolioReturns(DropNa(PctChange(data)),
                                                           arg_weights.w))
            /\ pc' = "done"
            /\ returned' = "result"
            /\ UNCHANGED <<inputs, initial_weights, mean_returns, cov_matrix, baseline,
                           results, weights_record, i, caught, propagated, history, session>>

Next == Prepare \/ Trial \/ Select \/ Metrics

Spec == Init /\ [][Next]_vars

\* ------------------------------------------- the same call made again
\* A program that calls optimizer.optimize_portfolio(tickers) directly, twice or
\* more with the same tickers, the same prices coming back. optimize_portfolio
\* draws its weights from numpy's global generator and has no seed of its own:
\* a caller fixes the seed with np.random.seed(seed). This caller did so before
\* the first call; before a later call it either does so again with the same
\* seed, and the generator starts again at the first value of the seed's
\* stream, or it does not, and the call draws the values that follow those of
\* the call before (as every call of the menu loop of main_pipeline.py does,
\* which never seeds: SpecFrontEnd).
Rerun ==
    /\ op = "optimize"
    /\ pc = "done"
    /\ runs < MaxRuns
    /\ runs' = runs + 1
    /\ prev_returned' = returned
    /\ prev_result' = result
    /\ pc' = "start"
    /\ initial_weights' = arg_weights
    /\ mean_returns' = <<>>
    /\ cov_matrix' = <<>>
    /\ baseline' = NoPoint
    /\ results' = <<>>
    /\ weights_record' = <<>>
    /\ i' = 0
    /\ caught' = "none"
    /\ propagated' = "none"
    /\ returned' = "none"
    /\ result' = NoResult
    /\ \/ /\ generator' = [generator EXCEPT !.position = 0]
          /\ seeded_runs' = seeded_runs \cup {runs + 1}
       \/ /\ generator.position + NumPortfolios * Len(tickers) <= MaxStream
          /\ UNCHANGED <<generator, seeded_runs>>
    /\ UNCHANGED <<inputs, session>>

RerunTables == {d \in Tables(2) : Len(d) = MaxRows /\ d[1] = <<1, 1>> /\ d[2] = <<1, 2>>}

InitRerun ==
    /\ op = "optimize"
    /\ tickers = <<"AAA", "BBB">>
    /\ arg_weights = None
    /\ fetch = "ok"
    /\ data \in RerunTables
    /\ Entry
    /\ runs = 1
    /\ prev_returned = "none"
    /\ prev_result = NoResult
    /\ generator = [Unseeded EXCEPT !.seeded = TRUE]
    /\ seeded_runs = {1}
    /\ DirectCall

NextRerun == Prepare \/ Trial \/ Select \/ Rerun

SpecRerun == InitRerun /\ [][NextRerun]_vars

\* ---------------------------------------------------------------- texts
\* What the user types is a sequence of characters; the front ends make their
\* tickers from it with str.split, str.strip and str.upper.
Chars == {"a", "B", " ", ","}
Inputs == UNION {[1..L -> Chars] : L \in 0..MaxInput}

HasComma(s) == \E j \in 1..Len(s) : s[j] = ","
FirstComma(s) == SetMin({j \in 1..Len(s) : s[j] = ","})

\* str.split(","): the fields between the commas, the empty ones included
RECURSIVE Split(_)
Split(s) ==
    IF ~HasComma(s) THEN <<s>>
    ELSE <<SubSeq(s, 1, FirstComma(s) - 1)>> \o Split(SubSeq(s, FirstComma(s) + 1, Len(s)))

\* str.strip(): without the leading and trailing white space
RECURSIVE Strip(_)
Strip(f) ==
    IF Len(f) > 0 /\ f[1] = " " THEN Strip(Tail(f))
    ELSE IF Len(f) > 0 /\ f[Len(f)] = " " THEN Strip(SubSeq(f, 1, Len(f) - 1))
    ELSE f

\* str.upper()
Letters ==
    [upper |-> <<"A", "B", "C", "D", "E", "F", "G", "H", "I", "J", "K", "L", "M",
                 "N", "O", "P", "Q", "R", "S", "T", "U", "V", "W", "X", "Y", "Z">>,
     lower |-> <<"a", "b", "c", "d", "e", "f", "g", "h", "i", "j", "k", "l", "m",
                 "n", "o", "p", "q", "r", "s", "t", "u", "v", "w", "x", "y", "z">>]
UpperChar(c) ==
    IF \E k \in 1..26 : Letters.lower[k] = c
    THEN Letters.upper[CHOOSE k \in 1..26 : Letters.lower[k] = c]
    ELSE c
Upper(f) == [j \in 1..Len(f) |-> UpperChar(f[j])]

ParseTickers(text) ==
    LET kept == SelectSeq(Split(text), LAMBDA f : Len(Strip(f)) > 0)
    IN  [j \in 1..Len(kept) |-> Upper(Strip(kept[j]))]

\* ------------------------------------------------- the companies table
\* src/data_collection/market_data.py, update_company, on the table of
\* src/database/schema.py. A row is [id, ticker, name]; name stands for the
\* five columns the method writes (name, sector, industry, country, market_cap),
\* which are always written together.
MaxCalls == 3
Symbols == {<<"A", "A", "A">>, <<"B", "B", "B">>}
CompanyNames == {"Alpha Inc", "Alpha Corp"}
\* what fetch_company_info returns: a dict, or {} when the lookup raised
Infos == {NoInfo} \cup {[name |-> n] : n \in CompanyNames}

\* session.query(Company).filter_by(ticker=ticker).first(): the index of the
\* first row with this ticker, 0 for None
FirstWithTicker(table, ticker) ==
    IF \E k \in 1..Len(table) : table[k].ticker = ticker
    THEN SetMin({k \in 1..Len(table) : table[k].ticker = ticker})
    ELSE 0

\* id = Column(Integer, primary_key=True): the next row id of the table
NextId(table) ==
    LET ids == {0} \cup {table[k].id : k \in 1..Len(table)}
    IN  (CHOOSE x \in ids : \A y \in ids : y <= x) + 1

\* ticker = Column(String(10), unique=True, index=True)
UniqueTickers(table) ==
    \A a, b \in 1..Len(table) : a # b => table[a].ticker # table[b].ticker

\* session.rollback(): the session's changes are dropped, the committed table
\* stays (RollbackKeepsChanges: the changes reach the table all the same)
RollbackKeepsChanges(table, changed) == changed
Rollback(table, changed) == table

\* lines 85-89: the call, the lookup of the company's data, "if not info: return".
\* The call is made on the collector directly, for any symbol, or by menu entry
\* 3 of main_pipeline.py (lines 91 and 100) when price data came back, for what
\* the user typed ("aaa" or "AAA "):
\*   ticker = input(...).upper().strip() ... collector.update_company(ticker)
UpdateCompany ==
    /\ db_pc = "idle"
    /\ db_calls < MaxCalls
    /\ pc \in {"idle", "update"}
    /\ pc' = IF pc = "update" THEN "updating" ELSE pc
    /\ \E info \in Infos,
          ticker \in (IF pc = "update"
                      THEN {Strip(Upper(entry)) :
                               entry \in {<<"a", "a", "a">>, <<"A", "A", "A", " ">>}}
                      ELSE Symbols) :
          /\ db_ticker' = ticker
          /\ db_info' = info
          /\ IF info = NoInfo
             THEN /\ db_pc' = "idle"
                  /\ db_calls' = db_calls + 1
             ELSE /\ db_pc' = "query"
                  /\ UNCHANGED db_calls
    /\ staged' = companies
    /\ db_error' = FALSE
    /\ UNCHANGED <<companies, inputs, initial_weights, mean_returns, cov_matrix,
                   baseline, results, weights_record, i, caught, propagated, returned,
                   result, history, front, tickers_input, reports, choice, report>>

\* lines 91-110: the query, then the row changed in place or a new row added
\* to the session; the query raises when the database cannot be read
Stage ==
    /\ db_pc = "query"
    /\ \/ /\ db_pc' = "rollback"
          /\ UNCHANGED staged
       \/ /\ LET company == FirstWithTicker(staged, db_ticker)
             IN  staged' = IF company # 0
                           THEN [staged EXCEPT ![company].name = db_info.name]
                           ELSE Append(staged, [id |-> NextId(staged),
                                                ticker |-> db_ticker,
                                                name |-> db_info.name])
          /\ db_pc' = "commit"
    /\ UNCHANGED <<companies, db_ticker, db_info, db_error, db_calls, inputs, pc,
                   initial_weights, mean_returns, cov_matrix, baseline, results,
                   weights_record, i, caught, propagated, returned, result, history,
                   front, tickers_input, reports, choice, report>>

\* line 112: session.commit() writes the session's changes, or raises (the
\* database locked or not writable, a constraint of the schema violated)
Commit ==
    /\ db_pc = "commit"
    /\ \/ /\ UniqueTickers(staged)
          /\ companies' = staged
          /\ db_pc' = "close"
       \/ /\ db_pc' = "rollback"
          /\ UNCHANGED companies
    /\ UNCHANGED <<db_ticker, db_info, staged, db_error, db_calls, inputs, pc,
                   initial_weights, mean_returns, cov_matrix, baseline, results,
                   weights_record, i, caught, propagated, returned, result, history,
                   front, tickers_input, reports, choice, report>>

\* lines 115-117: except Exception: session.rollback(), the error logged
RollbackStep ==
    /\ db_pc = "rollback"
    /\ companies' = Rollback(companies, staged)
    /\ staged' = companies'
    /\ db_error' = TRUE
    /\ db_pc' = "close"
    /\ UNCHANGED <<db_ticker, db_info, db_calls, inputs, pc,
                   initial_weights, mean_returns, cov_matrix, baseline, results,
                   weights_record, i, caught, propagated, returned, result, history,
                   front, tickers_input, reports, choice, report>>

\* lines 118-119: finally: session.close(), and the method returns
Close ==
    /\ db_pc = "close"
    /\ db_pc' = "idle"
    /\ staged' = <<>>
    /\ db_calls' = db_calls + 1
    /\ UNCHANGED <<companies, db_ticker, db_info, db_error, inputs, pc,
                   initial_weights, mean_returns, cov_matrix, baseline, results,
                   weights_record, i, caught, propagated, returned, result, history,
                   front, tickers_input, reports, choice, report>>

\* calls made on the collector or the analyzers alone: no optimizer call, no
\* front end, the table empty, no report begun
OptimizerIdle ==
    /\ op = "optimize"
    /\ tickers = <<>>
    /\ arg_weights = None
    /\ fetch = "ok"
    /\ data = <<>>
    /\ pc = "idle"
    /\ initial_weights = None
    /\ mean_returns = <<>>
    /\ cov_matrix = <<>>
    /\ baseline = NoPoint
    /\ results = <<>>
    /\ weights_record = <<>>
    /\ i = 0
    /\ caught = "none"
    /\ propagated = "none"
    /\ returned = "none"
    /\ result = NoResult
    /\ runs = 1
    /\ prev_returned = "none"
    /\ prev_result = NoResult
    /\ generator = Unseeded
    /\ seeded_runs = {}
    /\ DirectCall

NextCompanies == UpdateCompany \/ Stage \/ Commit \/ RollbackStep \/ Close

SpecCompanies == OptimizerIdle /\ [][NextCompanies]_vars

\* ------------------------------------------------- the analysis report
\* src/analysis_modules/financial_health.py, technical_analysis.py and
\* src/reporting/report_generator.py. A dict is a function on its keys; a
\* string that the code searches is a sequence of characters.
Get(dict, key, default) == IF key \in DOMAIN dict THEN dict[key] ELSE default

\* a decimal constant of the source, n / 100
Hundredths(n) == Num((n * Scale) \div 100)

\* FreeFinancialHealthAnalyzer.__init__: self.ratios_benchmark
RatiosBenchmark ==
    [current_ratio |-> [min |-> Hundredths(150), good |-> Hundredths(200)],
     debt_to_equity |-> [max |-> Hundredths(50), good |-> Hundredths(30)],
     interest_coverage |-> [min |-> Hundredths(300), good |-> Hundredths(500)],
     roe |-> [min |-> Hundredths(15), good |-> Hundredths(20)],
     net_margin |-> [min |-> Hundredths(10), good |-> Hundredths(15)]]

\* lines 130-139: what one ratio adds to the score, in half points
HalfPoints(ratio_value, benchmark) ==
    IF "min" \in DOMAIN benchmark
    THEN (IF FGe(ratio_value, benchmark.good) THEN 2
          ELSE IF FGe(ratio_value, benchmark.min) THEN 1
          ELSE 0)
    ELSE IF "max" \in DOMAIN benchmark
    THEN (IF FLe(ratio_value, benchmark.good) THEN 2
          ELSE IF FLe(ratio_value, benchmark.max) THEN 1
          ELSE 0)
    ELSE 0

RECURSIVE SumOver(_, _)
SumOver(S, f) ==
    IF S = {} THEN 0
    ELSE LET x == CHOOSE y \in S : TRUE IN f[x] + SumOver(S \ {x}, f)

\* lines 143-150
HealthStatus(final_score) ==
    IF FGe(final_score, Hundredths(80)) THEN "Excellent"
    ELSE IF FGe(final_score, Hundredths(60)) THEN "Good"
    ELSE IF FGe(final_score, Hundredths(40)) THEN "Fair"
    ELSE "Poor"

\* _calculate_health_score: the benchmarks whose name is a key of ratios are the
\* ones scored
CalculateHealthScore(ratios) ==
    LET scored == {ratio_name \in DOMAIN RatiosBenchmark : ratio_name \in DOMAIN ratios}
        max_score == Cardinality(scored)
        halves == SumOver(scored, [ratio_name \in scored |->
                      HalfPoints(ratios[ratio_name], RatiosBenchmark[ratio_name])])
        final_score == IF max_score > 0
                       THEN FDiv(Num((halves * Scale) \div 2), Num(max_score * Scale))
                       ELSE Zero
    IN  [score |-> final_score, status |-> HealthStatus(final_score)]

\* the amounts of the latest balance sheet and income statement
MaxDenominator == 2
Denominators == {Num(a * Scale) : a \in 0..MaxDenominator}
Numerators == {Num(a * Scale) : a \in {0, 1, 3, 5}}

\* analyze_company lines 58-84: the ratios that the benchmarks are about (the
\* other entries of the dict are the keys of no benchmark)
Ratios(current_assets, current_liabilities, total_liabilities, total_equity, revenue, net_income, operating_income, interest_expense) ==
    LET keys == (IF FGt(current_liabilities, Zero) THEN {"current_ratio"} ELSE {})
                \cup (IF FGt(total_equity, Zero)
                      THEN {"debt_to_equity", "return_on_equity"} ELSE {})
                \cup (IF FGt(revenue, Zero) THEN {"net_margin"} ELSE {})
                \cup (IF FGt(interest_expense, Zero) THEN {"interest_coverage"} ELSE {})
    IN  [key \in keys |->
            IF key = "current_ratio" THEN FDiv(current_assets, current_liabilities)
            ELSE IF key = "debt_to_equity" THEN FDiv(total_liabilities, total_equity)
            ELSE IF key = "return_on_equity" THEN FDiv(net_income, total_equity)
            ELSE IF key = "net_margin" THEN FDiv(net_income, revenue)
            ELSE FDiv(operating_income, interest_expense)]

\* analyze_company lines 58-114 on statements that are not empty
AnalyzeCompany ==
    /\ report_pc = "start"
    /\ \E current_assets \in Numerators, current_liabilities \in Denominators,
          total_liabilities \in Numerators, total_equity \in Denominators,
          revenue \in Denominators, net_income \in Numerators,
          operating_income \in Numerators, interest_expense \in Denominators :
          LET ratios == Ratios(current_assets, current_liabilities, total_liabilities,
                               total_equity, revenue, net_income, operating_income,
                               interest_expense)
              health_score == CalculateHealthScore(ratios)
          IN  health' = [ratios |-> ratios,
                         health_score |-> health_score.score,
                         health_status |-> health_score.status]
    /\ report_pc' = "health"
    /\ UNCHANGED <<technical, valuation_summary, recommendation, graham, portfolio,
                   database>>

NextHealth == AnalyzeCompany

SpecHealth == OptimizerIdle /\ [][NextHealth]_vars

\* the texts of technical_analysis.py lines 124-169, by the line that holds them
\* or a name for it
Text ==
    [\* "Price above 20-day MA (bullish)"
     PriceAboveMA |->
        <<"P", "r", "i", "c", "e", " ", "a", "b", "o", "v", "e", " ", "2", "0", "-", "d", "a", "y", " ", "M", "A", " ", "(", "b", "u", "l", "l", "i", "s", "h", ")">>,
     \* "Price below 20-day MA (bearish)"
     PriceBelowMA |->
        <<"P", "r", "i", "c", "e", " ", "b", "e", "l", "o", "w", " ", "2", "0", "-", "d", "a", "y", " ", "M", "A", " ", "(", "b", "e", "a", "r", "i", "s", "h", ")">>,
     \* "All MAs in bullish alignment"
     BullishAlignment |->
        <<"A", "l", "l", " ", "M", "A", "s", " ", "i", "n", " ", "b", "u", "l", "l", "i", "s", "h", " ", "a", "l", "i", "g", "n", "m", "e", "n", "t">>,
     \* "RSI > 70 (overbought)"
     RsiOverbought |->
        <<"R", "S", "I", " ", ">", " ", "7", "0", " ", "(", "o", "v", "e", "r", "b", "o", "u", "g", "h", "t", ")">>,
     \* "RSI < 30 (oversold)"
     RsiOversold |->
        <<"R", "S", "I", " ", "<", " ", "3", "0", " ", "(", "o", "v", "e", "r", "s", "o", "l", "d", ")">>,
     \* "RSI neutral"
     RsiNeutral |->
        <<"R", "S", "I", " ", "n", "e", "u", "t", "r", "a", "l">>,
     \* "MACD bullish"
     MacdBullish |->
        <<"M", "A", "C", "D", " ", "b", "u", "l", "l", "i", "s", "h">>,
     \* "MACD bearish"
     MacdBearish |->
        <<"M", "A", "C", "D", " ", "b", "e", "a", "r", "i", "s", "h">>,
     \* "High volume (significant move)"
     HighVolume |->
        <<"H", "i", "g", "h", " ", "v", "o", "l", "u", "m", "e", " ", "(", "s", "i", "g", "n", "i", "f", "i", "c", "a", "n", "t", " ", "m", "o", "v", "e", ")">>,
     \* "Near resistance level"
     NearResistance |->
        <<"N", "e", "a", "r", " ", "r", "e", "s", "i", "s", "t", "a", "n", "c", "e", " ", "l", "e", "v", "e", "l">>,
     \* "Near support level"
     NearSupport |->
        <<"N", "e", "a", "r", " ", "s", "u", "p", "p", "o", "r", "t", " ", "l", "e", "v", "e", "l">>,
     \* "Overall bias: "
     OverallBiasPrefix |->
        <<"O", "v", "e", "r", "a", "l", "l", " ", "b", "i", "a", "s", ":", " ">>,
     \* "Bullish"
     Bullish |->
        <<"B", "u", "l", "l", "i", "s", "h">>,
     \* "Bearish"
     Bearish |->
        <<"B", "e", "a", "r", "i", "s", "h">>,
     \* "Neutral"
     Neutral |->
        <<"N", "e", "u", "t", "r", "a", "l">>]
\* the words counted by report_generator.py lines 125-126 and by lines 159-160
Word ==
    [bullish |-> <<"b", "u", "l", "l", "i", "s", "h">>,
     bearish |-> <<"b", "e", "a", "r", "i", "s", "h">>]
\* str.lower()
LowerChar(c) ==
    IF \E k \in 1..26 : Letters.upper[k] = c
    THEN Letters.lower[CHOOSE k \in 1..26 : Letters.upper[k] = c]
    ELSE c
Lower(text) == [k \in 1..Len(text) |-> LowerChar(text[k])]

\* word in text
Contains(text, word) ==
    \E k \in 1..(Len(text) - Len(word) + 1) : SubSeq(text, k, k + Len(word) - 1) = word

\* sum(1 for s in signals if word in s.lower())
Count(signals, word) ==
    Cardinality({k \in 1..Len(signals) : Contains(Lower(signals[k]), word)})

\* technical_analysis.py lines 159-167
OverallBias(signals) ==
    LET bullish_count == Count(signals, Word.bullish)
        bearish_count == Count(signals, Word.bearish)
    IN  IF bullish_count > bearish_count THEN Text.Bullish
        ELSE IF bearish_count > bullish_count THEN Text.Bearish
        ELSE Text.Neutral

\* _generate_signals, lines 116-171; a comparison with NaN is false
GenerateSignals(current_price, sma_20, sma_50, sma_200, rsi, macd, macd_signal, volume_ratio, resistance, support) ==
    LET signals ==
            (IF FGt(current_price, sma_20) THEN <<Text.PriceAboveMA>> ELSE <<Text.PriceBelowMA>>)
            \o (IF FGt(sma_20, sma_50) /\ FGt(sma_50, sma_200)
                THEN <<Text.BullishAlignment>> ELSE <<>>)
            \o (IF FGt(rsi, Num(70 * Scale)) THEN <<Text.RsiOverbought>>
                ELSE IF FLt(rsi, Num(30 * Scale)) THEN <<Text.RsiOversold>>
                ELSE <<Text.RsiNeutral>>)
            \o (IF FGt(macd, macd_signal) THEN <<Text.MacdBullish>> ELSE <<Text.MacdBearish>>)
            \o (IF FGt(volume_ratio, Hundredths(150)) THEN <<Text.HighVolume>> ELSE <<>>)
            \o (IF FGt(current_price, FMul(resistance, Hundredths(98)))
                THEN <<Text.NearResistance>>
                ELSE IF FLt(current_price, FMul(support, Hundredths(102)))
                THEN <<Text.NearSupport>>
                ELSE <<>>)
    IN  Append(signals, Text.OverallBiasPrefix \o OverallBias(signals))

\* the values of the indicators
MaxPrice == 3
PriceLevels == {Num(a * Scale) : a \in 1..MaxPrice}
\* three levels, so that the averages can stand in every order (sma_20 > sma_50
\* > sma_200 among them), and NaN for a window longer than the frame
Averages == {Num(Scale), Num(2 * Scale), Num(3 * Scale), NaN}
RsiValues == {Num(20 * Scale), Num(50 * Scale), Num(80 * Scale), NaN}
MacdValues == {Num(0 - Scale), Zero, Num(Scale)}
VolumeRatios == {One, Num(2 * Scale)}

\* analyze_stock lines 60-67: the signals of a frame that is not empty (the
\* MACD signal line at 0, the MACD above, on or below it)
AnalyzeStock ==
    /\ report_pc \in {"start", "health"}
    /\ \E current_price \in PriceLevels, sma_20 \in Averages, sma_50 \in Averages,
          sma_200 \in Averages, rsi \in RsiValues, macd \in MacdValues,
          volume_ratio \in VolumeRatios, resistance \in PriceLevels,
          support \in PriceLevels :
          technical' = [signals |-> GenerateSignals(current_price, sma_20, sma_50, sma_200,
                                                    rsi, macd, Zero, volume_ratio,
                                                    resistance, support)]
    /\ report_pc' = "technical"
    /\ UNCHANGED <<health, valuation_summary, recommendation, graham, portfolio, database>>

\* report_generator.py lines 108-115: the valuation part of the score
ValuationPoints(summary) ==
    IF Get(summary, "is_undervalued", FALSE) THEN 40
    ELSE IF FGt(Get(summary, "average_upside", Zero), Num(10 * Scale)) THEN 30
    ELSE IF FGt(Get(summary, "average_upside", Zero), Zero) THEN 20
    ELSE 10

\* lines 124-133: the technical part of the score
\* (TechnicalPointsOneSided: 20 and 5 only for a list whose signals are all of
\* one side, 12 for every mixed list)
TechnicalPointsOneSided(tech) ==
    LET technical_signals == Get(tech, "signals", <<>>)
        bullish_count == Count(technical_signals, Word.bullish)
        bearish_count == Count(technical_signals, Word.bearish)
    IN  IF bullish_count > 0 /\ bearish_count = 0 THEN 20
        ELSE IF bearish_count > 0 /\ bullish_count = 0 THEN 5
        ELSE 12
TechnicalPoints(tech) ==
    LET technical_signals == Get(tech, "signals", <<>>)
        bullish_count == Count(technical_signals, Word.bullish)
        bearish_count == Count(technical_signals, Word.bearish)
    IN  IF bullish_count > bearish_count THEN 20
        ELSE IF bearish_count > bullish_count THEN 5
        ELSE 12

\* lines 140-154: the label of a final score
\* (RecommendationAbove: the thresholds tested with > )
RecommendationAbove(final_score) ==
    IF FGt(final_score, Num(80 * Scale)) THEN [recommendation |-> "STRONG BUY", confidence |-> "High"]
    ELSE IF FGt(final_score, Num(65 * Scale)) THEN [recommendation |-> "BUY", confidence |-> "Medium"]
    ELSE IF FGt(final_score, Num(50 * Scale)) THEN [recommendation |-> "HOLD", confidence |-> "Low"]
    ELSE IF FGt(final_score, Num(35 * Scale)) THEN [recommendation |-> "SELL", confidence |-> "Medium"]
    ELSE [recommendation |-> "STRONG SELL", confidence |-> "High"]
Recommendation(final_score) ==
    IF FGe(final_score, Num(80 * Scale)) THEN [recommendation |-> "STRONG BUY", confidence |-> "High"]
    ELSE IF FGe(final_score, Num(65 * Scale)) THEN [recommendation |-> "BUY", confidence |-> "Medium"]
    ELSE IF FGe(final_score, Num(50 * Scale)) THEN [recommendation |-> "HOLD", confidence |-> "Low"]
    ELSE IF FGe(final_score, Num(35 * Scale)) THEN [recommendation |-> "SELL", confidence |-> "Medium"]
    ELSE [recommendation |-> "STRONG SELL", confidence |-> "High"]

\* _generate_recommendation, lines 102-161 (the rationale text left out)
GenerateRecommendation(summary, h, tech) ==
    LET health_score == Get(h, "health_score", Zero)
        score == FAdd(FAdd(Num(ValuationPoints(summary) * Scale),
                           FMul(health_score, Num(40 * Scale))),
                      Num(TechnicalPoints(tech) * Scale))
        max_score == 40 + 40 + 20
        final_score == FMul(FDiv(score, Num(max_score * Scale)), Num(100 * Scale))
        label == Recommendation(final_score)
    IN  [score |-> final_score,
         recommendation |-> label.recommendation,
         confidence |-> label.confidence]

\* the arguments of _generate_recommendation: the valuation summary ({} when no
\* method gave a value) and the health dict ({} when the analysis failed)
ScoreSteps == 8
HealthScores == {Num((a * Scale) \div ScoreSteps) : a \in 0..ScoreSteps}
Upsides == {Num(0 - 5 * Scale), Zero, Num(5 * Scale), Num(15 * Scale)}
ValuationSummaries ==
    {EmptyDict} \cup {[is_undervalued |-> u, average_upside |-> a] :
                         u \in BOOLEAN, a \in Upsides}
HealthDicts == {EmptyDict} \cup {[health_score |-> x] : x \in HealthScores}

\* generate_stock_report lines 47-54: the recommendation from the three analyses
Recommend ==
    /\ report_pc \in {"start", "technical"}
    /\ \E summary \in ValuationSummaries, h \in HealthDicts :
          /\ valuation_summary' = summary
          /\ health' = h
          /\ recommendation' = GenerateRecommendation(summary, h, technical)
    /\ report_pc' = "done"
    /\ UNCHANGED <<technical, graham, portfolio, database>>

NextRecommendation == AnalyzeStock \/ Recommend

SpecRecommendation == OptimizerIdle /\ [][NextRecommendation]_vars

\* ------------------------------------------------------ the front ends
\* main_pipeline.py (the menu loop) and dashboard.py (the pages) read the
\* user's entries and call the report generator, the optimizer and the data
\* collector. Menu entry 2 and the page Portfolio Optimization make the ticker
\* list from a line of text:
\*   tickers = [t.strip().upper() for t in tickers_input.split(",") if t.strip()]
\* the frame a download gives the front end's call: MaxRows dates, k columns
FrontEndTable(k) == [t \in 1..MaxRows |-> [a \in 1..k |-> IF (t + a) % 2 = 0 THEN 2 ELSE 1]]

\* yf.download decides how many columns come back for a list that names one
\* ticker twice: one per entry of the list, or one per distinct symbol
ColumnCounts(list) == {Len(list), Cardinality(Range(list))}

\* if len(tickers) < 2: the message, and back to the menu
\* (TooFewEmpty: only the empty list is turned away)
TooFewEmpty(parsed) == Len(parsed) < 1
TooFew(parsed) == Len(parsed) < 2

\* menu entry 2 (the Portfolio Optimization page of the dashboard): the prompt
\* and the parse (main_pipeline.py lines 58-61, dashboard.py lines 115-116)
Submit ==
    /\ pc = "menu"
    /\ runs < MaxRuns
    /\ choice' = "2"
    /\ \E text \in Inputs :
          /\ tickers_input' = text
          /\ tickers' = ParseTickers(text)
    /\ pc' = "parsed"
    /\ UNCHANGED <<op, arg_weights, fetch, data, initial_weights, mean_returns, cov_matrix,
                   baseline, results, weights_record, i, caught, propagated, returned,
                   result, history, front, reports, database, report>>

\* the "fewer than 2 tickers" test: the message and the menu again, or the call
\* of optimize_portfolio (main_pipeline.py lines 63-70, dashboard.py lines 118-124)
Check ==
    /\ pc = "parsed"
    /\ IF TooFew(tickers)
       THEN /\ pc' = "menu"
            /\ tickers' = <<>>
            /\ tickers_input' = <<>>
            /\ UNCHANGED <<op, arg_weights, fetch, data>>
       ELSE /\ op' = "optimize"
            /\ arg_weights' = None
            /\ \/ fetch' = "raises" /\ data' = <<>>
               \/ /\ fetch' = "ok"
                  /\ \E k \in ColumnCounts(tickers) : data' = FrontEndTable(k)
            /\ pc' = "start"
            /\ UNCHANGED <<tickers, tickers_input>>
    /\ UNCHANGED <<initial_weights, mean_returns, cov_matrix, baseline, results,
                   weights_record, i, caught, propagated, returned, result, history,
                   front, reports, choice, database, report>>

\* after the call: "if result:" shows the result, and the CLI also writes it to
\* reports/portfolio_<time>.json; then the menu again
\* (main_pipeline.py lines 72-89, dashboard.py lines 126-161)
Finish ==
    /\ front # "api"
    /\ pc = "done"
    /\ reports' = IF front = "cli" /\ returned = "result" THEN reports + 1 ELSE reports
    /\ runs' = runs + 1
    /\ pc' = "menu"
    /\ tickers_input' = <<>>
    /\ tickers' = <<>>
    /\ data' = <<>>
    /\ fetch' = "ok"
    /\ initial_weights' = None
    /\ mean_returns' = <<>>
    /\ cov_matrix' = <<>>
    /\ baseline' = NoPoint
    /\ results' = <<>>
    /\ weights_record' = <<>>
    /\ i' = 0
    /\ caught' = "none"
    /\ propagated' = "none"
    /\ returned' = "none"
    /\ result' = NoResult
    /\ UNCHANGED <<op, arg_weights, front, choice, prev_returned, prev_result, generator,
                   seeded_runs, database, report>>

\* menu entry 1 (the page Single Stock Analysis; the page Compare Stocks, once
\* per ticker of its list): the ticker typed ("aaa" or "a/b"), then
\* reporter.generate_stock_report(ticker), lines 18-59 of report_generator.py in
\* one step (its except branch is not followed). The analyses give it the
\* Graham dict, the valuation summary, the health dict and the technical dict,
\* each {} when its analysis found no data. graham_formula returns {} for
\* eps <= 0 or book value <= 0 and otherwise a dict whose 'is_undervalued_graham'
\* is a numpy bool (current_price < np.sqrt(...)); its intrinsic_value
\* eps * (8.5 + 2 * growth) is of either sign, and _summarize_valuation
\* returns a summary whenever it is positive (valuation.py lines 138-175,
\* report_generator.py lines 65-100).
StockReport ==
    /\ \/ /\ pc = "menu"
          /\ \E c \in (IF front = "cli" THEN {"1"} ELSE {"1", "compare"}) : choice' = c
       \/ /\ pc = "report"
          /\ choice = "compare"
          /\ UNCHANGED choice
    /\ pc' = "report"
    /\ \E entry \in {<<"a", "a", "a">>, <<"a", "/", "b">>} :
          tickers_input' = Strip(Upper(entry))
    /\ \E g \in {EmptyDict,
                  [intrinsic_value |-> Num(0 - Scale), is_undervalued_graham |-> FALSE],
                  [intrinsic_value |-> Num(10 * Scale), is_undervalued_graham |-> TRUE]},
          summary \in {EmptyDict, [is_undervalued |-> TRUE,
                                    average_upside |-> Num(15 * Scale)]},
          h \in {EmptyDict, [health_score |-> One]},
          tech \in {EmptyDict,
                    [signals |-> GenerateSignals(Num(2 * Scale), One, One, One,
                                                 Num(50 * Scale), One, Zero, One,
                                                 Num(3 * Scale), One)]} :
          /\ FGt(Get(g, "intrinsic_value", Zero), Zero) => summary # EmptyDict
          /\ graham' = g
          /\ valuation_summary' = summary
          /\ health' = h
          /\ technical' = tech
          /\ recommendation' = GenerateRecommendation(summary, h, tech)
    /\ report_pc' = "done"
    /\ UNCHANGED <<inputs, initial_weights, mean_returns, cov_matrix, baseline, results,
                   weights_record, i, caught, propagated, returned, result, history,
                   front, reports, database>>

\* "if report:" holds (the dict has its keys even when the analyses are {}).
\* The dashboard shows the report. The CLI calls reporter.save_report(report)
\* outside any try: open("reports/<ticker>_analysis_<time>.json", "w") raises
\* for a ticker with a "/" in it, and json.dump raises for a value json cannot
\* write: always for a Graham dict that is not {} (its 'is_undervalued_graham'
\* is a numpy bool), and for some technical dicts and valuation summaries
\* (technical holds numpy integers when the volume column is of an integer
\* type, the summary a numpy bool when a method gave a numpy number). The
\* exception leaves main() and the loop is over. Otherwise the files are
\* written and the menu comes again.
\* (main_pipeline.py lines 45-56, report_generator.py lines 236-248,
\* valuation.py line 169, dashboard.py lines 39-110 and 181-210)
FinishReport ==
    /\ pc = "report"
    /\ LET no_file == \E j \in 1..Len(tickers_input) : tickers_input[j] = "/"
           numpy_bool == graham # EmptyDict
           numpy_value == technical # EmptyDict \/ valuation_summary # EmptyDict
       IN  \/ /\ front = "cli" => ~no_file /\ ~numpy_bool
              /\ pc' = "menu"
              /\ tickers_input' = <<>>
              /\ report_pc' = "start"
              /\ health' = EmptyDict
              /\ technical' = EmptyDict
              /\ valuation_summary' = EmptyDict
              /\ recommendation' = EmptyDict
              /\ graham' = EmptyDict
           \/ /\ front = "cli"
              /\ no_file \/ numpy_bool \/ numpy_value
              /\ pc' = "raised"
              /\ UNCHANGED <<tickers_input, report>>
    /\ UNCHANGED <<inputs, initial_weights, mean_returns, cov_matrix, baseline, results,
                   weights_record, i, caught, propagated, returned, result, history,
                   front, reports, choice, database>>

\* menu entry 3 of the CLI: collector.fetch_stock_data(ticker, period="1y"); when
\* the frame is not empty, save_price_data (the price rows are not followed) and
\* the call of update_company; when it is empty, the message and the menu again
\* (main_pipeline.py lines 90-103)
UpdateData ==
    /\ pc = "menu"
    /\ front = "cli"
    /\ runs < MaxRuns
    /\ choice' = "3"
    /\ \E empty \in BOOLEAN : pc' = IF empty THEN "menu" ELSE "update"
    /\ UNCHANGED <<inputs, initial_weights, mean_returns, cov_matrix, baseline, results,
                   weights_record, i, caught, propagated, returned, result, history,
                   front, tickers_input, reports, database, report>>

\* update_company has returned: "Data updated for <ticker>", the menu again
\* (main_pipeline.py lines 101-102)
FinishUpdate ==
    /\ pc = "updating"
    /\ db_pc = "idle"
    /\ pc' = "menu"
    /\ runs' = runs + 1
    /\ db_ticker' = <<>>
    /\ db_info' = NoInfo
    /\ db_error' = FALSE
    /\ UNCHANGED <<inputs, initial_weights, mean_returns, cov_matrix, baseline, results,
                   weights_record, i, caught, propagated, returned, result,
                   prev_returned, prev_result, generator, seeded_runs, front, tickers_input,
                   reports, choice, companies, db_pc, staged, db_calls, report>>

\* any other entry at the CLI's prompt: "Invalid choice. Please try again."
\* (main_pipeline.py lines 109-110)
InvalidChoice ==
    /\ pc = "menu"
    /\ front = "cli"
    /\ choice' = "invalid"
    /\ UNCHANGED <<inputs, pc, initial_weights, mean_returns, cov_matrix, baseline, results,
                   weights_record, i, caught, propagated, returned, result, history,
                   front, tickers_input, reports, database, report>>

\* menu entry 4 of the CLI: break, the loop ends
Exit ==
    /\ pc = "menu"
    /\ front = "cli"
    /\ choice' = "4"
    /\ pc' = "exit"
    /\ UNCHANGED <<inputs, initial_weights, mean_returns, cov_matrix, baseline, results,
                   weights_record, i, caught, propagated, returned, result, history,
                   front, tickers_input, reports, database, report>>

InitFrontEnd ==
    /\ front \in {"cli", "dashboard"}
    /\ tickers_input = <<>>
    /\ reports = 0
    /\ choice = "none"
    /\ DatabaseIdle
    /\ ReportIdle
    /\ op = "optimize"
    /\ tickers = <<>>
    /\ arg_weights = None
    /\ fetch = "ok"
    /\ data = <<>>
    /\ pc = "menu"
    /\ initial_weights = None
    /\ mean_returns = <<>>
    /\ cov_matrix = <<>>
    /\ baseline = NoPoint
    /\ results = <<>>
    /\ weights_record = <<>>
    /\ i = 0
    /\ caught = "none"
    /\ propagated = "none"
    /\ returned = "none"
    /\ result = NoResult
    /\ runs = 1
    /\ prev_returned = "none"
    /\ prev_result = NoResult
    /\ generator = Unseeded
    /\ seeded_runs = {}

NextFrontEnd ==
    \/ Submit \/ Check \/ Prepare \/ Trial \/ Select \/ Finish
    \/ StockReport \/ FinishReport
    \/ UpdateData \/ UpdateCompany \/ Stage \/ Commit \/ RollbackStep \/ Close \/ FinishUpdate
    \/ InvalidChoice \/ Exit

SpecFrontEnd == InitFrontEnd /\ [][NextFrontEnd]_vars

\* ------------------------------- calculate_portfolio_metrics on its own
\* The portfolio dicts and price frames of calculate_portfolio_metrics, with one
\* more date than the frames of Init: a series of up to MaxRows period returns.
MetricsTables(n) == UNION {[1..T -> RowSet(n)] : T \in 0..MaxRows + 1}

InitMetrics ==
    /\ op = "metrics"
    /\ tickers \in TickerLists
    /\ arg_weights \in WeightArgs
    /\ arg_weights.given
    /\ Len(arg_weights.w) = Len(tickers)
    /\ \/ fetch = "raises" /\ data = <<>>
       \/ fetch = "ok" /\ data \in MetricsTables(Len(tickers))
    /\ Entry
    /\ runs = 1
    /\ prev_returned = "none"
    /\ prev_result = NoResult
    /\ generator = Unseeded
    /\ seeded_runs = {}
    /\ DirectCall

NextMetrics == Metrics

SpecMetrics == InitMetrics /\ [][NextMetrics]_vars

\* ---------------------------------------------------------------- claims
\* the results table exists: the sampling loop is running or has returned
Sampling == pc = "loop" \/ returned = "result"
Frontier == result.efficient_frontier

\* |sum of the components - 1| <= 1e-6
SumsToOne(w) ==
    LET s == FSum(w)
    IN  IsNum(s) /\ Abs(s.v - Scale) * 1000000 <= Scale

\* the inputs the design's error kinds are about
NoData == fetch = "raises" \/ Empty(data)
TooFewObservations == ~NoData /\ Len(DropNa(PctChange(data))) < 2
WrongLength == arg_weights.given /\ Len(arg_weights.w) # Len(tickers)
NotNormalised == arg_weights.given /\ ~SumsToOne(arg_weights.w)
Failure == NoData \/ TooFewObservations \/ WrongLength \/ NotNormalised \/ caught # "none"

PositivePrices == \A t \in 1..Len(data) : \A a \in 1..Len(data[t]) : data[t][a] > 0
\* at least 2 tickers and a table of positive prices
PricedUniverse == Len(tickers) >= 2 /\ ~NoData /\ PositivePrices
\* ... that gives at least 2 rows of returns
UsableData == PricedUniverse /\ ~TooFewObservations
\* nothing but the sum of the weights is wrong with the call
OtherwiseValid == UsableData /\ ~WrongLength

\* C1: when optimize_portfolio has returned its result (for 2 tickers or more
\* with positive prices), the volatility of the min_volatility point is <= the
\* volatility of every sampled portfolio
C1_MinVolatilityIsMinimum ==
    op = "optimize" /\ PricedUniverse /\ returned = "result" =>
        \A j \in 1..NumPortfolios :
            FLe(result.min_volatility.volatility, Frontier.volatilities[j])

\* C2: when optimize_portfolio has returned its result, the Sharpe ratio of the
\* max_sharpe point is >= the Sharpe ratio of every sampled portfolio
C2_MaxSharpeIsMaximum ==
    op = "optimize" /\ returned = "result" =>
        \A j \in 1..NumPortfolios :
            FGe(result.max_sharpe.sharpe_ratio, Frontier.sharpe_ratios[j])

\* C2 witness: a returned result whose samples differ in Sharpe ratio, the
\* maximum not being the first sample
C2_Witness ==
    /\ op = "optimize"
    /\ returned = "result"
    /\ FGt(result.max_sharpe.sharpe_ratio, Frontier.sharpe_ratios[1])

\* |sum of the components - 1| is within the rounding of Len(w) divisions
SumsToOneRounded(w) ==
    LET s == FSum(w)
    IN  IsNum(s) /\ Abs(s.v - Scale) <= Len(w)

\* C3: every recorded weight vector (of a run on usable price data) has its
\* components in [0, 1] and sums to 1 within tolerance
C3_RecordedWeightsOnSimplex ==
    op = "optimize" /\ UsableData =>
    \A j \in 1..Len(weights_record) :
        /\ \A a \in 1..Len(weights_record[j]) :
              FGe(weights_record[j][a], Zero) /\ FLe(weights_record[j][a], One)
        /\ SumsToOneRounded(weights_record[j])

DefinedNonNegative(x) == IsNum(x) /\ x.v >= 0

\* C4: the baseline volatility and every sampled volatility (for 2 tickers or
\* more with positive prices) is a defined number >= 0, and is 0 where the
\* quadratic form is negative
C4_VolatilityDefinedNonNegative ==
    op = "optimize" /\ PricedUniverse /\ Sampling =>
        /\ DefinedNonNegative(baseline.volatility)
        /\ \A j \in 1..i :
              /\ DefinedNonNegative(results[2][j])
              /\ FLt(QuadraticForm(cov_matrix, weights_record[j]), Zero)
                     => results[2][j] = Zero

SharpeAsSpecified(ret, vol, sharpe) ==
    IF FGt(vol, Zero) THEN sharpe = FDiv(FSub(ret, RiskFreeRate), vol)
    ELSE sharpe = Zero

\* C5: the baseline's and every sampled portfolio's Sharpe ratio is
\* (return - risk_free_rate) / volatility when volatility > 0 and exactly 0
\* otherwise (a division by a zero volatility would leave an infinity or NaN)
C5_SharpeConvention ==
    op = "optimize" /\ Sampling =>
        /\ SharpeAsSpecified(baseline.expected_return, baseline.volatility,
                             baseline.sharpe_ratio)
        /\ \A j \in 1..i :
              SharpeAsSpecified(results[1][j], results[2][j], results[3][j])

\* C5 witness: one run has a sample of volatility 0 (Sharpe ratio 0 by the
\* convention) and a sample of positive volatility with a computed ratio
C5_Witness ==
    /\ pc = "loop"
    /\ \E j \in 1..i : results[2][j] = Zero /\ results[3][j] = Zero
    /\ \E j \in 1..i : FGt(results[2][j], Zero) /\ results[3][j] # Zero

\* the weight vector of trial j under the seed's stream
SeededWeights(j) ==
    LET n == Len(tickers)
    IN  Normalize(SubSeq(generator.stream, (j - 1) * n + 1, j * n))

\* C6: when the caller seeds numpy's generator with one seed before each of two
\* successive calls, the two calls, with identical arguments and identical
\* price data (so identical moments, asset count and risk-free rate) and the
\* same number of samples, return an identical sample set (the same weight
\* vectors, trial by trial, and the same frontier) and identical max-Sharpe and
\* min-volatility points
C6_FixedSeedSameResult ==
    ({runs - 1, runs} \subseteq seeded_runs /\ returned = "result"
        /\ prev_returned = "result") =>
        /\ \A j \in 1..NumPortfolios : weights_record[j] = SeededWeights(j)
        /\ result.efficient_frontier = prev_result.efficient_frontier
        /\ result.max_sharpe = prev_result.max_sharpe
        /\ result.min_volatility = prev_result.min_volatility

\* C6 witness: a call made after np.random.seed(seed) has returned, as the
\* seeded call before it did, with samples that differ from one another and a
\* max-Sharpe point that is not the min-volatility point
C6_Witness ==
    /\ {runs - 1, runs} \subseteq seeded_runs
    /\ returned = "result"
    /\ prev_returned = "result"
    /\ generator.position = NumPortfolios * Len(tickers)
    /\ weights_record[1] # weights_record[NumPortfolios]
    /\ result.max_sharpe # result.min_volatility

ErrorKinds ==
    {"InsufficientDataError", "EmptyUniverseError", "DimensionMismatchError",
     "InvalidWeightsError", "InvalidInputError", "EmptyReturnSeriesError"}

\* C7: a call (for 2 tickers or more) that fails ends with a typed error at the
\* caller, and no call returns the empty result in place of an error
C7_FailuresAreTyped ==
    Len(tickers) >= 2 =>
        /\ (pc = "done" /\ Failure) => propagated \in ErrorKinds
        /\ returned # "empty"

\* C8: with fewer than 2 assets or fewer than 1 sample (and a download that
\* does not raise) the sampler ends with InvalidInputError, and no sample set or
\* distinguished point is produced
C8_TooFewAssetsRejected ==
    (op = "optimize" /\ fetch = "ok" /\ (Len(tickers) < 2 \/ NumPortfolios < 1)) =>
        /\ pc = "done" => propagated = "InvalidInputError"
        /\ weights_record = <<>>
        /\ returned # "result"

\* C9: a caller's weight vector that does not sum to 1 within 1e-6 (of the right
\* length, with usable price data) ends either operation with
\* InvalidWeightsError, and no metrics are computed from it
C9_UnnormalisedWeightsRejected ==
    (NotNormalised /\ OtherwiseValid) =>
        /\ pc = "done" => propagated = "InvalidWeightsError"
        /\ pc # "loop"
        /\ returned # "result"

\* C10: a caller's weight vector of the wrong length (with usable price data)
\* ends optimize_portfolio with DimensionMismatchError: no baseline metrics, and
\* no empty result
C10_WrongLengthRejected ==
    (op = "optimize" /\ WrongLength /\ UsableData) =>
        /\ pc = "done" => propagated = "DimensionMismatchError"
        /\ pc # "loop"
        /\ returned # "result"
        /\ returned # "empty"

\* a price history of exactly 1 row for each of 1 or more tickers (the return
\* series is empty), with nothing else wrong with the call
OneRowHistory == fetch = "ok" /\ Len(tickers) >= 1 /\ Len(data) = 1 /\ ~WrongLength

\* C11: on a price history of exactly 1 row per asset, either operation ends
\* with EmptyReturnSeriesError or InsufficientDataError at the caller: it does
\* not sample, and it returns neither the empty result nor a result
C11_OneRowHistoryRejected ==
    OneRowHistory =>
        /\ pc = "done" => propagated \in {"EmptyReturnSeriesError", "InsufficientDataError"}
        /\ pc # "loop"
        /\ returned = "none"

\* C12: the result of optimize_portfolio (on usable price data) holds the full
\* sample: for each of the K trials its weight vector together with its
\* expected_return, volatility and sharpe_ratio
C12_FrontierHoldsWeights ==
    op = "optimize" /\ UsableData /\ returned = "result" =>
        /\ Len(Frontier.returns) = NumPortfolios
        /\ Len(Frontier.volatilities) = NumPortfolios
        /\ Len(Frontier.sharpe_ratios) = NumPortfolios
        /\ "weights" \in DOMAIN Frontier
        /\ Frontier.weights = weights_record

\* sqrt(w^T cov w) on the daily covariance matrix, and sqrt(mean of its diagonal)
WeightedVol(cov, w) == FSqrt(Dot(w, MatVec(cov, w)))
AverageVol(cov) == FSqrt(FDivInt(FSum([a \in 1..Len(cov) |-> cov[a][a]]), Len(cov)))

\* C13: the reported diversification ratio is sqrt(mean of the covariance
\* diagonal) / sqrt(w^T cov w) when that portfolio volatility is > 0, and
\* exactly 1 when it is 0 (w: the max-Sharpe weights the ratio is reported for)
C13_DiversificationRatioDefinition ==
    op = "optimize" /\ returned = "result" =>
        LET w == result.max_sharpe.weights
            pv == WeightedVol(cov_matrix, w)
        IN  /\ FGt(pv, Zero) =>
                  result.diversification_ratio = FDiv(AverageVol(cov_matrix), pv)
            /\ FEq(pv, Zero) => result.diversification_ratio = One

\* C13 witness: a result for 2 tickers whose max-Sharpe portfolio has volatility
\* 0 while the average variance is positive, reported with ratio 1
C13_Witness ==
    /\ op = "optimize"
    /\ returned = "result"
    /\ Len(tickers) = 2
    /\ WeightedVol(cov_matrix, result.max_sharpe.weights) = Zero
    /\ FGt(AverageVol(cov_matrix), Zero)
    /\ result.diversification_ratio = One

\* C14: for a single-asset portfolio (weight vector [1]) with a variance >= 0
\* the reported diversification ratio is exactly 1
C14_SingleAssetRatioIsOne ==
    (/\ op = "optimize"
     /\ returned = "result"
     /\ Len(tickers) = 1
     /\ result.max_sharpe.weights = <<One>>
     /\ DefinedNonNegative(cov_matrix[1][1])) =>
        result.diversification_ratio = One

\* C14 witness: a single-asset result with weight 1 and a variance > 0
C14_Witness ==
    /\ op = "optimize"
    /\ returned = "result"
    /\ Len(tickers) = 1
    /\ result.max_sharpe.weights = <<One>>
    /\ FGt(cov_matrix[1][1], Zero)
    /\ result.diversification_ratio = One

\* the realized return series calculate_portfolio_metrics works on
RealizedReturns == PortfolioReturns(DropNa(PctChange(data)), arg_weights.w)
MetricsReturned == op = "metrics" /\ returned = "result"
Magnitude(x) == [k |-> x.k, v |-> Abs(x.v)]

\* C15: for a non-empty realized return series with no negative period return,
\* calculate_portfolio_metrics returns sortino_ratio = 0 and no exception is
\* raised (none is caught, none reaches the caller)
C15_SortinoZeroWithoutLosses ==
    (/\ MetricsReturned
     /\ Len(RealizedReturns) > 0
     /\ \A t \in 1..Len(RealizedReturns) : ~FLt(RealizedReturns[t], Zero)) =>
        /\ result.sortino_ratio = Zero
        /\ caught = "none"
        /\ propagated = "none"

\* C15 witness: a returned series of gains only, with an annual return above
\* the risk-free rate, reported with Sortino ratio 0
C15_Witness ==
    /\ MetricsReturned
    /\ Len(RealizedReturns) > 0
    /\ \A t \in 1..Len(RealizedReturns) : FGt(RealizedReturns[t], Zero)
    /\ FGt(result.annual_return, RiskFreeRate)
    /\ result.sortino_ratio = Zero

\* C16: calmar_ratio is annual_return / abs(max_drawdown) when max_drawdown is
\* not 0, and 0 when max_drawdown is exactly 0
C16_CalmarConvention ==
    MetricsReturned =>
        IF result.max_drawdown = Zero
        THEN result.calmar_ratio = Zero
        ELSE result.calmar_ratio =
                 FDiv(result.annual_return, Magnitude(result.max_drawdown))

\* C16 witness: a returned series with a drawdown below 0 and a Calmar ratio
\* that is not 0
C16_Witness ==
    /\ MetricsReturned
    /\ FLt(result.max_drawdown, Zero)
    /\ FGt(result.calmar_ratio, Zero)

\* the maximum cumulative value over the periods 1..t
RunningPeak(cumulative, t) ==
    LET seen == SkipNa(SubSeq(cumulative, 1, t))
    IN  IF Len(seen) = 0 THEN NaN
        ELSE CHOOSE x \in Range(seen) : \A y \in Range(seen) : FLe(y, x)

\* min over t of cumulative[t] / running peak[t] - 1
SpecifiedDrawdown(series) ==
    LET cumulative == CumProd([t \in 1..Len(series) |-> FAdd(One, series[t])])
        below == SkipNa([t \in 1..Len(series) |->
                            FSub(FDiv(cumulative[t], RunningPeak(cumulative, t)), One)])
    IN  IF Len(below) = 0 THEN NaN
        ELSE CHOOSE x \in Range(below) : \A y \in Range(below) : FLe(x, y)

\* equal, or two numbers one rounding unit apart ((c - p) / p and c / p - 1
\* round a tie in opposite directions)
SameUpToRounding(a, b) == a = b \/ (IsNum(a) /\ IsNum(b) /\ Abs(a.v - b.v) <= 1)

\* C17: max_drawdown is the minimum over the periods t of
\* cumulative_value[t] / running_peak[t] - 1, the running peak being the
\* maximum cumulative value up to and including t
C17_MaxDrawdownDefinition ==
    MetricsReturned =>
        SameUpToRounding(result.max_drawdown, SpecifiedDrawdown(RealizedReturns))

\* C17 witness: a returned series that rises after its first period, so that the
\* running peak of period 1 is below the maximum of the series
C17_Witness ==
    /\ MetricsReturned
    /\ Len(RealizedReturns) >= 2
    /\ FGt(RealizedReturns[2], Zero)
    /\ IsNum(result.max_drawdown)

SumOfGains == FSum(SelectSeq(RealizedReturns, LAMBDA x : FGt(x, Zero)))
SumOfLosses == FSum(SelectSeq(RealizedReturns, LAMBDA x : FLt(x, Zero)))
HasLosingPeriod == \E t \in 1..Len(RealizedReturns) : FLt(RealizedReturns[t], Zero)

\* C18: profit_factor is (sum of the positive period returns) / abs(sum of the
\* negative period returns) when there is a losing period, and 0 when there is
\* none
C18_ProfitFactorConvention ==
    MetricsReturned =>
        IF HasLosingPeriod
        THEN result.profit_factor = FDiv(SumOfGains, Magnitude(SumOfLosses))
        ELSE result.profit_factor = Zero

\* C18 witness: a returned series with a gain and a loss and a profit factor
\* that is not 0
C18_Witness ==
    /\ MetricsReturned
    /\ HasLosingPeriod
    /\ FGt(SumOfGains, Zero)
    /\ FGt(result.profit_factor, Zero)

\* a caller's trial budget of fewer than K trials
TrialBudget == NumPortfolios - 1

\* C19: when the caller's trial budget is exhausted after j < K trials the
\* sampler stops: it runs no trial beyond the budget, and the result it returns
\* is over the trials done so far and carries a flag marking the sample as partial
C19_StopsAtTrialBudget ==
    op = "optimize" /\ UsableData /\ ~WrongLength =>
        /\ i <= TrialBudget
        /\ Len(weights_record) <= TrialBudget
        /\ returned = "result" =>
              /\ "partial" \in DOMAIN result
              /\ result.partial = TRUE

Distinct(list) == \A a, b \in 1..Len(list) : a # b => list[a] # list[b]

\* C20: the ticker list with which a front end calls optimize_portfolio is a
\* sequence of distinct symbols: no ticker occupies two indices of the weight
\* vector during a run
C20_CalledWithDistinctTickers ==
    (front \in {"cli", "dashboard"} /\ pc \in {"start", "loop", "done"}) =>
        /\ Distinct(tickers)
        /\ \A j \in 1..Len(weights_record) :
              Len(weights_record[j]) = Cardinality(Range(tickers))

\* the return rows whose prior-period prices are all non-zero: the rows that are
\* left when every row with an undefined entry is rejected
RECURSIVE DefinedReturnsFrom(_, _)
DefinedReturnsFrom(d, t) ==
    IF t > Len(d) THEN <<>>
    ELSE (IF t >= 2 /\ \A a \in 1..Len(d[t]) : d[t - 1][a] # 0
          THEN <<PctChange(d)[t]>>
          ELSE <<>>) \o DefinedReturnsFrom(d, t + 1)
DefinedReturns == DefinedReturnsFrom(data, 1)

\* C21: a price row whose prior-period price is 0 for some asset is rejected:
\* the mean vector and covariance matrix of optimize_portfolio, and the metrics
\* of calculate_portfolio_metrics, are those of the remaining return rows
C21_ZeroPriorPriceRejected ==
    (fetch = "ok" /\ ~Empty(data) /\ ~WrongLength) =>
        /\ (op = "optimize" /\ Len(tickers) >= 2 /\ Sampling) =>
              /\ mean_returns = MeanVector(DefinedReturns, Len(data[1]))
              /\ cov_matrix = CovMatrix(DefinedReturns, Len(data[1]))
        /\ MetricsReturned =>
              result = PortfolioMetrics(PortfolioReturns(DefinedReturns, arg_weights.w))

\* C22: a weight vector is never changed after it is made: a step leaves every
\* recorded vector as it was, leaves the caller's initial_weights as they were
\* passed, and the result reports the caller's vector with the same components
C22_WeightVectorsNeverMutated ==
    [][/\ \A j \in 1..Len(weights_record) :
             (pc' # "start" /\ pc' # "menu") =>
                 /\ Len(weights_record') >= j
                 /\ weights_record'[j] = weights_record[j]
       /\ arg_weights' = arg_weights
       /\ (arg_weights.given /\ returned' = "result" /\ op = "optimize") =>
              result'.current_portfolio.weights = arg_weights.w]_vars

\* C22 witness: a returned call with a caller-supplied vector and two recorded
\* vectors that differ
C22_Witness ==
    /\ op = "optimize"
    /\ returned = "result"
    /\ arg_weights.given
    /\ result.current_portfolio.weights = arg_weights.w
    /\ Len(weights_record) = NumPortfolios
    /\ weights_record[1] # weights_record[NumPortfolios]

\* the selection made from the same trials taken in the order p
MaxSharpeUnder(p) ==
    LET res == [r \in 1..3 |-> [c \in 1..NumPortfolios |-> results[r][p[c]]]]
        record == [c \in 1..NumPortfolios |-> weights_record[p[c]]]
        idx == ArgMax(SharpeOrder(res))
    IN  [weights |-> record[idx], expected_return |-> res[1][idx],
         volatility |-> res[2][idx], sharpe_ratio |-> res[3][idx]]
MinVolatilityUnder(p) ==
    LET res == [r \in 1..3 |-> [c \in 1..NumPortfolios |-> results[r][p[c]]]]
        record == [c \in 1..NumPortfolios |-> weights_record[p[c]]]
        idx == ArgMin(res[2])
    IN  [weights |-> record[idx], expected_return |-> res[1][idx],
         volatility |-> res[2][idx], sharpe_ratio |-> res[3][idx]]

\* C23: the max-Sharpe and min-volatility points of a result (on usable price
\* data, every sampled vector summing to 1) are those selected from any permutation of the same K trials, ties for
\* the extreme value included
C23_SelectionOrderIndependent ==
    (/\ op = "optimize" /\ UsableData /\ returned = "result"
     /\ \A j \in 1..NumPortfolios : SumsToOneRounded(weights_record[j])) =>
        \A p \in Permutations(1..NumPortfolios) :
            /\ MaxSharpeUnder(p) = result.max_sharpe
            /\ MinVolatilityUnder(p) = result.min_volatility

FromOneTrial(point) ==
    \E j \in 1..NumPortfolios :
        /\ point.weights = weights_record[j]
        /\ point.expected_return = results[1][j]
        /\ point.volatility = results[2][j]
        /\ point.sharpe_ratio = results[3][j]

\* C24: throughout the loop the j-th recorded weight vector is the one whose
\* return, volatility and Sharpe ratio are in column j of the results table,
\* and each distinguished point of the result has its four fields from one trial
C24_PointFieldsFromOneTrial ==
    (op = "optimize" /\ Sampling) =>
        /\ Len(weights_record) = i
        /\ \A j \in 1..i :
              /\ results[1][j] = PortfolioReturn(mean_returns, weights_record[j])
              /\ results[2][j] = PortfolioVolatility(cov_matrix, weights_record[j])
              /\ results[3][j] = SharpeRatio(results[1][j], results[2][j])
        /\ returned = "result" =>
              /\ FromOneTrial(result.max_sharpe)
              /\ FromOneTrial(result.min_volatility)

\* C24 witness: a result on usable data whose two distinguished points are
\* different trials
C24_Witness ==
    /\ op = "optimize"
    /\ UsableData
    /\ returned = "result"
    /\ result.max_sharpe.weights # result.min_volatility.weights
    /\ result.max_sharpe.volatility # result.min_volatility.volatility

\* the cumulative value of the realized series, period by period
CumulativeValue ==
    CumProd([t \in 1..Len(RealizedReturns) |-> FAdd(One, RealizedReturns[t])])
NeverBelowPeak ==
    \A t \in 1..Len(RealizedReturns) :
        ~FLt(CumulativeValue[t], RunningPeak(CumulativeValue, t))
AboveMinusOne == \A t \in 1..Len(RealizedReturns) : FGt(RealizedReturns[t], Num(-Scale))
FiniteReturns == \A t \in 1..Len(RealizedReturns) : IsNum(RealizedReturns[t])

\* C25: for a non-empty realized return series with every period return > -1,
\* the returned max_drawdown is <= 0, and it is exactly 0 if and only if the
\* cumulative value never falls below its running peak
C25_MaxDrawdownNonPositive ==
    (MetricsReturned /\ Len(RealizedReturns) > 0 /\ AboveMinusOne) =>
        /\ FLe(result.max_drawdown, Zero)
        /\ (result.max_drawdown = Zero) <=> NeverBelowPeak

\* the same statement for series of finite returns only
C25_FiniteSeries ==
    FiniteReturns => C25_MaxDrawdownNonPositive

\* C26: in both front ends, whatever the menu choices and inputs, the optimizer
\* runs with 2 tickers or more only, and an input with fewer than 2 non-blank
\* tickers comes back to the menu with no call and no portfolio report written
C26_NoCallBelowTwoTickers ==
    [][front # "api" =>
          /\ pc' \in {"start", "loop", "done"} => Len(tickers') >= 2
          /\ (pc = "parsed" /\ Len(ParseTickers(tickers_input)) < 2) =>
                /\ pc' = "menu"
                /\ reports' = reports
                /\ returned' = "none"
                /\ tickers' = <<>>
          /\ reports' # reports => (pc = "done" /\ Len(tickers) >= 2)]_vars

\* C26 witness: back at the menu from the "fewer than 2 tickers" test, the
\* first entry of the session, with no call made and nothing written (a call
\* that was made is counted in runs)
C26_Witness ==
    /\ front \in {"cli", "dashboard"}
    /\ pc = "menu"
    /\ choice = "2"
    /\ runs = 1
    /\ returned = "none"
    /\ reports = 0

AtMostOneRowPerTicker(table) ==
    \A t \in Symbols : Cardinality({k \in 1..Len(table) : table[k].ticker = t}) <= 1
HasRow(table, t) == \E k \in 1..Len(table) : table[k].ticker = t

\* C27: through any sequence of update_company calls the companies table holds
\* at most one row per ticker; a committed call for a ticker that has a row
\* changes that row in place and adds none; and nothing but a successful
\* commit changes the table, so a failed call leaves it as it was
C27_OneRowPerTicker ==
    [][/\ AtMostOneRowPerTicker(companies')
       /\ (db_pc = "commit" /\ db_pc' = "close" /\ HasRow(companies, db_ticker)) =>
              /\ Len(companies') = Len(companies)
              /\ \A k \in 1..Len(companies) :
                    companies'[k] = IF companies[k].ticker = db_ticker
                                    THEN [companies[k] EXCEPT !.name = db_info.name]
                                    ELSE companies[k]
       /\ companies' # companies => (db_pc = "commit" /\ db_pc' = "close")]_vars

\* C27 witness: a call for a ticker that has a row, with other data than the
\* row holds, has failed and been rolled back, after two earlier calls
C27_Witness ==
    /\ db_pc = "close"
    /\ db_error
    /\ db_calls = 2
    /\ HasRow(companies, db_ticker)
    /\ \E k \in 1..Len(companies) :
          companies[k].ticker = db_ticker /\ companies[k].name # db_info.name

InUnitInterval(x) == FGe(x, Zero) /\ FLe(x, One)

\* C28: for an input with health_score in [0, 1], _generate_recommendation
\* returns a score in [0, 100] and the label that the score alone decides:
\* STRONG BUY iff score >= 80, BUY iff 65 <= score < 80, HOLD iff
\* 50 <= score < 65, SELL iff 35 <= score < 50, STRONG SELL iff score < 35
C28_ScoreDecidesLabel ==
    (report_pc = "done" /\ InUnitInterval(Get(health, "health_score", Zero))) =>
        LET score == recommendation.score
            label == recommendation.recommendation
        IN  /\ FGe(score, Zero)
            /\ FLe(score, Num(100 * Scale))
            /\ label = "STRONG BUY" <=> FGe(score, Num(80 * Scale))
            /\ label = "BUY" <=> (FGe(score, Num(65 * Scale)) /\ FLt(score, Num(80 * Scale)))
            /\ label = "HOLD" <=> (FGe(score, Num(50 * Scale)) /\ FLt(score, Num(65 * Scale)))
            /\ label = "SELL" <=> (FGe(score, Num(35 * Scale)) /\ FLt(score, Num(50 * Scale)))
            /\ label = "STRONG SELL" <=> FLt(score, Num(35 * Scale))

\* C28 witness: a recommendation whose score is exactly on the threshold 80
C28_Witness ==
    /\ report_pc = "done"
    /\ "health_score" \in DOMAIN health
    /\ InUnitInterval(health.health_score)
    /\ recommendation.score = Num(80 * Scale)
    /\ recommendation.recommendation = "STRONG BUY"

BenchmarkedRatios ==
    {"current_ratio", "debt_to_equity", "interest_coverage", "return_on_equity", "net_margin"}
\* the benchmark of a ratio of the company
BenchmarkOf(key) ==
    IF key = "return_on_equity" THEN RatiosBenchmark["roe"] ELSE RatiosBenchmark[key]
\* the average of the five benchmarks' points
AverageOfFive(ratios) ==
    FDiv(Num((SumOver(BenchmarkedRatios,
                      [key \in BenchmarkedRatios |-> HalfPoints(ratios[key], BenchmarkOf(key))])
              * Scale) \div 2),
         Num(5 * Scale))

\* C29: for a company with positive current liabilities, equity, revenue and
\* interest expense (all five benchmarked ratios computed), the health score is
\* the average of the points of all five benchmarks
C29_AllFiveBenchmarksScored ==
    (report_pc = "health" /\ BenchmarkedRatios \subseteq DOMAIN health.ratios) =>
        health.health_score = AverageOfFive(health.ratios)

\* the bias that the last entry of the signal list states
BiasEntry(word) == Text.OverallBiasPrefix \o word
StatedBias == technical.signals[Len(technical.signals)]
BiasPoints ==
    IF StatedBias = BiasEntry(Text.Bullish) THEN 20
    ELSE IF StatedBias = BiasEntry(Text.Bearish) THEN 5
    ELSE IF StatedBias = BiasEntry(Text.Neutral) THEN 12
    ELSE 0
ScoreWith(technical_points) ==
    LET score == FAdd(FAdd(Num(ValuationPoints(valuation_summary) * Scale),
                           FMul(Get(health, "health_score", Zero), Num(40 * Scale))),
                      Num(technical_points * Scale))
    IN  FMul(FDiv(score, Num(100 * Scale)), Num(100 * Scale))

\* C30: for a signal list made by _generate_signals, the recommendation's score
\* holds 20 technical points iff the list's 'Overall bias' entry says Bullish,
\* 5 iff it says Bearish and 12 iff it says Neutral
C30_TechnicalPointsAgreeWithBias ==
    (report_pc = "done" /\ "signals" \in DOMAIN technical) =>
        /\ StatedBias \in {BiasEntry(Text.Bullish), BiasEntry(Text.Bearish), BiasEntry(Text.Neutral)}
        /\ recommendation.score = ScoreWith(BiasPoints)

\* C30 witness: a recommendation on a list with two bullish signals and one
\* bearish signal, whose bias entry says Bullish, scored with 20 technical points
C30_Witness ==
    /\ report_pc = "done"
    /\ "signals" \in DOMAIN technical
    /\ LET signals == SubSeq(technical.signals, 1, Len(technical.signals) - 1)
       IN  /\ Count(signals, Word.bullish) = 2
           /\ Count(signals, Word.bearish) = 1
    /\ StatedBias = BiasEntry(Text.Bullish)
    /\ recommendation.score = ScoreWith(20)

====
